---- MODULE Spec2Model ----
(***************************************************************************)
(* Model of CSV-Validate-Repair.py: the line parser, the field validators, *)
(* the duplicate detector and the validate-then-rewrite pipeline.          *)
(*                                                                         *)
(* Text is a sequence of one-character strings, so that trimming, case     *)
(* folding, regex substitution and CSV quoting are computed character by   *)
(* character as the code computes them.                                    *)
(***************************************************************************)
EXTENDS Integers, Sequences, FiniteSets, TLC

(***************************************************************************)
(* Bounds of the model.                                                    *)
(***************************************************************************)
MaxStrLen == 3
MaxCrcLen == 9
MaxLines == 3
MaxFileLines == 2

(***************************************************************************)
(* Characters.                                                             *)
(***************************************************************************)
LOWER == <<"a","b","c","d","e","f","g","h","i","j","k","l","m",
           "n","o","p","q","r","s","t","u","v","w","x","y","z">>
UPPER == <<"A","B","C","D","E","F","G","H","I","J","K","L","M",
           "N","O","P","Q","R","S","T","U","V","W","X","Y","Z">>
Digits == {"0","1","2","3","4","5","6","7","8","9"}
HexUpperChars == Digits \cup {"A","B","C","D","E","F"}
HexChars == HexUpperChars \cup {"a","b","c","d","e","f"}
WhiteSpace == {" ", "\t", "\r", "\n"}
ControlChars == {"\t", "\r", "\n"}
InvalidFilenameChars == {"<", ">", ":", "\"", "|", "?", "*"} \cup ControlChars
InvalidPathChars == {"<", ">", "\"", "|", "?", "*"} \cup ControlChars

Range(s) == {s[i] : i \in 1..Len(s)}

UpperChar(c) ==
    IF c \in Range(LOWER) THEN UPPER[CHOOSE i \in 1..26 : LOWER[i] = c] ELSE c

LowerChar(c) ==
    IF c \in Range(UPPER) THEN LOWER[CHOOSE i \in 1..26 : UPPER[i] = c] ELSE c

Upper(s) == [i \in 1..Len(s) |-> UpperChar(s[i])]
Lower(s) == [i \in 1..Len(s) |-> LowerChar(s[i])]

\* str.lstrip(chars) / str.rstrip(chars) / str.strip(chars)
RECURSIVE LStripSet(_, _)
LStripSet(s, cs) ==
    IF s # <<>> /\ Head(s) \in cs THEN LStripSet(Tail(s), cs) ELSE s

RECURSIVE RStripSet(_, _)
RStripSet(s, cs) ==
    IF s # <<>> /\ s[Len(s)] \in cs THEN RStripSet(SubSeq(s, 1, Len(s) - 1), cs) ELSE s

Strip(s) == RStripSet(LStripSet(s, WhiteSpace), WhiteSpace)

\* re.sub(<class>, '', s): keep the characters outside the class
Keep(s, cs) == SelectSeq(s, LAMBDA c : c \in cs)

\* re.sub(<class>, '_', s)
ReplaceSet(s, cs) == [i \in 1..Len(s) |-> IF s[i] \in cs THEN "_" ELSE s[i]]

\* re.search(<class>, s)
HasAny(s, cs) == \E i \in 1..Len(s) : s[i] \in cs

IsDigitStr(s) == s # <<>> /\ \A i \in 1..Len(s) : s[i] \in Digits

EndsWith(s, c) == s # <<>> /\ s[Len(s)] = c

RECURSIVE Zeros(_)
Zeros(n) == IF n <= 0 THEN <<>> ELSE <<"0">> \o Zeros(n - 1)

CrcWidth == 8

\* str.zfill(width)
ZFill(s, w) == Zeros(w - Len(s)) \o s

\* s[:n]
Prefix(s, n) == SubSeq(s, 1, IF Len(s) < n THEN Len(s) ELSE n)

RECURSIVE Join(_, _)
Join(parts, sep) ==
    IF parts = <<>> THEN <<>>
    ELSE IF Len(parts) = 1 THEN parts[1]
    ELSE parts[1] \o sep \o Join(Tail(parts), sep)

(***************************************************************************)
(* CSVValidationIssue                                                      *)
(***************************************************************************)
None == <<>>
Some(v) == <<v>>

NoDup == [crc_part |-> <<>>, size_part |-> <<>>, lines_list |-> <<>>]

Issue(line_num, field_num, field_name, issue_type, original_value, repaired_value) ==
    [line_num |-> line_num, field_num |-> field_num, field_name |-> field_name,
     issue_type |-> issue_type, original_value |-> original_value,
     repaired_value |-> repaired_value, dup |-> NoDup]

MISSING_FILENAME ==
    <<"M","I","S","S","I","N","G","_","F","I","L","E","N","A","M","E",".","j","p","g">>

(***************************************************************************)
(* Field validators.  Each returns [val |-> accepted value, iss |-> the    *)
(* issue list after the call].                                             *)
(***************************************************************************)
validate_filename(filename, line_num, issues, repair) ==
    IF filename = <<>> \/ Strip(filename) = <<>>
    THEN [val |-> MISSING_FILENAME,
          iss |-> Append(issues, Issue(line_num, 1, "FileName", "Empty filename",
                                       filename, None))]
    ELSE
      LET original == filename
          f1 == IF repair THEN Strip(filename) ELSE filename
          bad == HasAny(f1, InvalidFilenameChars)
          repaired == ReplaceSet(f1, InvalidFilenameChars)
          i1 == IF bad
                THEN Append(issues, Issue(line_num, 1, "FileName",
                                          "Invalid filename characters", original,
                                          IF repair THEN Some(repaired) ELSE None))
                ELSE issues
          f2 == IF bad /\ repair THEN repaired ELSE f1
          i2 == IF repair /\ original # f2
                THEN Append(i1, Issue(line_num, 1, "FileName",
                                      "Whitespace trimmed or characters replaced",
                                      original, Some(f2)))
                ELSE i1
      IN [val |-> f2, iss |-> i2]

validate_size(size, line_num, issues, repair) ==
    LET original == size
        s1 == IF repair THEN Strip(size) ELSE size
        digits_only == Keep(s1, Digits)
    IN IF ~IsDigitStr(s1)
       THEN IF digits_only # <<>>
            THEN IF repair
                 THEN [val |-> digits_only,
                       iss |-> Append(issues, Issue(line_num, 2, "Size",
                                   "Non-digit characters removed", original,
                                   Some(digits_only)))]
                 ELSE [val |-> original,
                       iss |-> Append(issues, Issue(line_num, 2, "Size",
                                   "Non-digit characters detected", original, None))]
            ELSE IF repair
                 THEN [val |-> <<"0">>,
                       iss |-> Append(issues, Issue(line_num, 2, "Size",
                                   "Invalid size - no digits found", original,
                                   Some(<<"0">>)))]
                 ELSE [val |-> original,
                       iss |-> Append(issues, Issue(line_num, 2, "Size",
                                   "Invalid size - no digits found", original, None))]
       ELSE [val |-> s1, iss |-> issues]

\* re.match(r'^[0-9A-F]{8}$', s) and re.match(r'^[0-9A-Fa-f]{8}$', s); '$' also
\* matches before one trailing newline
MatchHex8(s, cs) ==
    LET core == IF EndsWith(s, "\n") THEN SubSeq(s, 1, Len(s) - 1) ELSE s
    IN Len(core) = CrcWidth /\ \A i \in 1..Len(core) : core[i] \in cs

\* keeps the last 8 hex characters of a long checksum instead of the first 8
validate_crc32_mut_keep_tail(crc32, line_num, issues, repair) ==
    LET hex_only == Upper(Keep(crc32, HexChars))
    IN [val |-> IF Len(hex_only) > CrcWidth
                THEN SubSeq(hex_only, Len(hex_only) - CrcWidth + 1, Len(hex_only))
                ELSE ZFill(hex_only, CrcWidth),
        iss |-> issues]

validate_crc32(crc32, line_num, issues, repair) ==
    LET original == crc32
        c1 == IF repair THEN Upper(Strip(crc32)) ELSE Strip(crc32)
        valid == IF repair THEN MatchHex8(c1, HexUpperChars) ELSE MatchHex8(c1, HexChars)
        hex_only == Upper(Keep(c1, HexChars))
        truncated == Prefix(hex_only, CrcWidth)
        padded == ZFill(hex_only, CrcWidth)
        R(kindRepair, kindCheck, fixed) ==
            IF repair
            THEN [val |-> fixed,
                  iss |-> Append(issues, Issue(line_num, 3, "CRC32", kindRepair,
                                               original, Some(fixed)))]
            ELSE [val |-> original,
                  iss |-> Append(issues, Issue(line_num, 3, "CRC32", kindCheck,
                                               original, None))]
    IN IF ~valid
       THEN IF Len(hex_only) = CrcWidth
            THEN R("Non-hex characters removed", "Non-hex characters present", hex_only)
            ELSE IF Len(hex_only) > CrcWidth
            THEN R("CRC32 truncated to 8 characters", "CRC32 too long", truncated)
            ELSE IF Len(hex_only) > 0
            THEN R("CRC32 padded with zeros", "CRC32 too short", padded)
            ELSE R("Invalid CRC32 - no valid hex found",
                   "Invalid CRC32 - no valid hex found", Zeros(CrcWidth))
       ELSE [val |-> c1, iss |-> issues]

validate_path(path, line_num, issues, repair) ==
    LET original == path
        p1 == IF repair THEN Strip(path) ELSE path
        bad == HasAny(p1, InvalidPathChars)
        repaired == ReplaceSet(p1, InvalidPathChars)
        i1 == IF bad
              THEN Append(issues, Issue(line_num, 4, "Path",
                              IF repair THEN "Invalid path characters removed"
                                        ELSE "Invalid path characters present",
                              original, IF repair THEN Some(repaired) ELSE None))
              ELSE issues
        p2 == IF bad /\ repair THEN repaired ELSE p1
        i2 == IF repair /\ original # p2 /\ p2 # <<>>
              THEN Append(i1, Issue(line_num, 4, "Path",
                                    "Whitespace or invalid characters removed",
                                    original, Some(p2)))
              ELSE i1
    IN [val |-> p2, iss |-> i2]

validate_comment(comment, line_num, issues) ==
    IF comment # <<>> THEN Strip(comment) ELSE <<>>

(***************************************************************************)
(* Line parser: parse_csv_line_with_quotes                                 *)
(***************************************************************************)
\* REGION_PLACEHOLDER_FMT.format(idx=0): the placeholder is one token of the
\* masked line; it holds no comma, quote, backslash or line break
REGION_PLACEHOLDER == "<<<CSV_REGION_0>>>"

Min(S) == CHOOSE x \in S : \A y \in S : x <= y
Max(S) == CHOOSE x \in S : \A y \in S : x >= y

\* re.compile(r'\\(.*)\\(?=,)', re.DOTALL).sub(_repl, line): the leftmost
\* backslash starts the match, the greedy (.*) carries it to the last backslash
\* that stands directly before a comma; nothing after it can match again
BackslashAt(s) == {i \in 1..Len(s) : s[i] = "\\"}
BackslashCommaAt(s) == {i \in 1..Len(s) : s[i] = "\\" /\ i < Len(s) /\ s[i + 1] = ","}

HasRegion(line) ==
    /\ BackslashAt(line) # {}
    /\ \E j \in BackslashCommaAt(line) : j > Min(BackslashAt(line))

mask_regions(line) ==
    IF HasRegion(line)
    THEN LET i == Min(BackslashAt(line))
             j == Max(BackslashCommaAt(line))
         IN [temp_line |-> SubSeq(line, 1, i - 1) \o <<REGION_PLACEHOLDER>>
                           \o SubSeq(line, j + 1, Len(line)),
             regions |-> <<SubSeq(line, i, j)>>]
    ELSE [temp_line |-> line, regions |-> <<>>]

\* csv.reader(io.StringIO(text), doublequote=True): next(reader).  The states
\* are those of the reader of the csv module under the default dialect
\* (delimiter ',', quotechar '"', no escapechar, skipinitialspace off, not strict)
EOL == "EOL"
LineBreaks == {"\r", "\n"}

CsvInit == [state |-> "START_RECORD", field |-> <<>>, fields |-> <<>>, err |-> ""]

SaveField(st, next) ==
    [st EXCEPT !.fields = Append(st.fields, st.field), !.field = <<>>, !.state = next]

AddChar(st, c, next) == [st EXCEPT !.field = Append(st.field, c), !.state = next]

AfterBreak(c) == IF c = EOL THEN "START_RECORD" ELSE "EAT_CRNL"

StartField(st, c) ==
    IF c \in LineBreaks \cup {EOL} THEN SaveField(st, AfterBreak(c))
    ELSE IF c = "\"" THEN [st EXCEPT !.state = "IN_QUOTED_FIELD"]
    ELSE IF c = "," THEN SaveField(st, "START_FIELD")
    ELSE AddChar(st, c, "IN_FIELD")

parse_process_char(st, c) ==
    CASE st.state = "START_RECORD" ->
            IF c = EOL THEN st
            ELSE IF c \in LineBreaks THEN [st EXCEPT !.state = "EAT_CRNL"]
            ELSE StartField(st, c)
      [] st.state = "START_FIELD" -> StartField(st, c)
      [] st.state = "IN_FIELD" ->
            IF c \in LineBreaks \cup {EOL} THEN SaveField(st, AfterBreak(c))
            ELSE IF c = "," THEN SaveField(st, "START_FIELD")
            ELSE AddChar(st, c, "IN_FIELD")
      [] st.state = "IN_QUOTED_FIELD" ->
            IF c = EOL THEN st
            ELSE IF c = "\"" THEN [st EXCEPT !.state = "QUOTE_IN_QUOTED_FIELD"]
            ELSE AddChar(st, c, "IN_QUOTED_FIELD")
      [] st.state = "QUOTE_IN_QUOTED_FIELD" ->
            IF c = "\"" THEN AddChar(st, c, "IN_QUOTED_FIELD")
            ELSE IF c = "," THEN SaveField(st, "START_FIELD")
            ELSE IF c \in LineBreaks \cup {EOL} THEN SaveField(st, AfterBreak(c))
            ELSE AddChar(st, c, "IN_FIELD")
      [] st.state = "EAT_CRNL" ->
            IF c \in LineBreaks THEN st
            ELSE IF c = EOL THEN [st EXCEPT !.state = "START_RECORD"]
            ELSE [st EXCEPT !.err =
                     "new-line character seen in unquoted field - do you need to open the file in universal-newline mode?"]

\* Reader_iternext: io.StringIO hands over the text in pieces that end after
\* each "\n"; every piece is followed by the end-of-line marker; the record is
\* complete when the state is START_RECORD again
RECURSIVE CsvRun(_, _, _)
CsvRun(text, i, st) ==
    IF st.err # "" THEN st
    ELSE IF i > Len(text)
    THEN IF st.field # <<>> \/ st.state = "IN_QUOTED_FIELD"
         THEN SaveField(st, st.state)
         ELSE [st EXCEPT !.err = "StopIteration"]
    ELSE LET s1 == parse_process_char(st, text[i])
         IN IF s1.err # "" THEN s1
            ELSE IF text[i] = "\n" \/ i = Len(text)
            THEN LET s2 == parse_process_char(s1, EOL)
                 IN IF s2.state = "START_RECORD" THEN s2 ELSE CsvRun(text, i + 1, s2)
            ELSE CsvRun(text, i + 1, s1)

csv_reader_next(text) == CsvRun(text, 1, CsvInit)

\* f.replace(ph, region_text) for every field
RECURSIVE ReplaceToken(_, _, _)
ReplaceToken(f, tok, text) ==
    IF f = <<>> THEN <<>>
    ELSE (IF Head(f) = tok THEN text ELSE <<Head(f)>>) \o ReplaceToken(Tail(f), tok, text)

\* mutant: the region comes back without its closing backslash
restore_regions_mut_drop_backslash(fields, regions) ==
    IF regions = <<>> THEN fields
    ELSE [k \in 1..Len(fields) |->
             ReplaceToken(fields[k], REGION_PLACEHOLDER,
                          SubSeq(regions[1], 1, Len(regions[1]) - 1))]

restore_regions(fields, regions) ==
    IF regions = <<>> THEN fields
    ELSE [k \in 1..Len(fields) |-> ReplaceToken(fields[k], REGION_PLACEHOLDER, regions[1])]

\* inner.replace('""', '"'): leftmost non-overlapping pairs
RECURSIVE CollapseQuotes(_)
CollapseQuotes(s) ==
    IF Len(s) >= 2 /\ s[1] = "\"" /\ s[2] = "\""
    THEN <<"\"">> \o CollapseQuotes(SubSeq(s, 3, Len(s)))
    ELSE IF s = <<>> THEN <<>>
    ELSE <<Head(s)>> \o CollapseQuotes(Tail(s))

_unquote_if_quoted(s) ==
    IF Len(s) >= 2 /\ s[1] = "\"" /\ s[Len(s)] = "\""
    THEN CollapseQuotes(SubSeq(s, 2, Len(s) - 1))
    ELSE s

\* re.sub(r'\\+,', r'\\,', f): a run of backslashes directly before a comma
\* becomes one backslash
RECURSIVE AllBackslashUntilComma(_, _)
AllBackslashUntilComma(s, i) ==
    IF i > Len(s) THEN FALSE
    ELSE IF s[i] = "," THEN TRUE
    ELSE IF s[i] = "\\" THEN AllBackslashUntilComma(s, i + 1)
    ELSE FALSE

RECURSIVE normalize_backslash_comma(_)
normalize_backslash_comma(s) ==
    IF s = <<>> THEN <<>>
    ELSE IF Len(s) >= 2 /\ s[1] = "\\" /\ s[2] = "\\" /\ AllBackslashUntilComma(s, 2)
    THEN normalize_backslash_comma(Tail(s))
    ELSE <<Head(s)>> \o normalize_backslash_comma(Tail(s))

\* str.split(','): always at least one part
RECURSIVE SplitComma(_, _, _)
SplitComma(s, i, cur) ==
    IF i > Len(s) THEN <<cur>>
    ELSE IF s[i] = "," THEN <<cur>> \o SplitComma(s, i + 1, <<>>)
    ELSE SplitComma(s, i + 1, Append(cur, s[i]))

CommaAt(s) == {i \in 1..Len(s) : s[i] = ","}

\* the "\," special case, applied on both paths
split_path_comment(line, fields) ==
    IF BackslashCommaAt(line) # {} /\ Len(fields) = 4 /\ CommaAt(fields[4]) # {}
    THEN LET k == Min(CommaAt(fields[4]))
             part0 == SubSeq(fields[4], 1, k - 1)
             path_part == IF EndsWith(part0, "\\") THEN part0 ELSE Append(part0, "\\")
             comment_part == SubSeq(fields[4], k + 1, Len(fields[4]))
         IN <<fields[1], fields[2], fields[3], path_part, comment_part>>
    ELSE fields

\* the except branch: split by comma, re-joining a part that ends in a backslash
RECURSIVE FallbackJoin(_, _, _)
FallbackJoin(parts, cur, acc) ==
    IF parts = <<>> THEN Append(acc, cur)
    ELSE IF EndsWith(cur, "\\")
    THEN FallbackJoin(Tail(parts), cur \o <<",">> \o Head(parts), acc)
    ELSE FallbackJoin(Tail(parts), Head(parts), Append(acc, cur))

unquote_all(fields) == [k \in 1..Len(fields) |-> _unquote_if_quoted(fields[k])]
normalize_all(fields) == [k \in 1..Len(fields) |-> normalize_backslash_comma(fields[k])]

\* mutant: the parsing error is reported on the first field
ParseErrorIssue_mut_field_one(line_num, msg, line) ==
    Issue(line_num, 1, "FileName", "CSV parsing error: " \o msg, line, None)

ParseErrorIssue(line_num, msg, line) ==
    Issue(line_num, 0, "Row", "CSV parsing error: " \o msg, line, None)

\* line_num and issues are optional arguments (None by default): an issue is
\* appended only when both are given.  Returns [fields |-> the parsed fields,
\* iss |-> the issues argument after the call]
parse_csv_line_with_quotes(raw, line_num, issues) ==
    LET line == RStripSet(LStripSet(raw, LineBreaks), LineBreaks)
        m == mask_regions(line)
        r == csv_reader_next(m.temp_line)
    IN IF r.err = ""
       THEN LET f1 == restore_regions(r.fields, m.regions)
                f2 == unquote_all(f1)
                f3 == normalize_all(f2)
            IN [fields |-> split_path_comment(line, f3), iss |-> issues]
       ELSE LET parts == SplitComma(m.temp_line, 1, <<>>)
                f0 == FallbackJoin(Tail(parts), Head(parts), <<>>)
                f1 == restore_regions(f0, m.regions)
                f2 == normalize_all(f1)
                f3 == unquote_all(f2)
            IN [fields |-> split_path_comment(line, f3),
                iss |-> IF issues # None /\ line_num # None
                        THEN Some(Append(issues[1],
                                 ParseErrorIssue(line_num[1],
                                     IF r.err = "StopIteration" THEN "" ELSE r.err, line)))
                        ELSE issues]

(***************************************************************************)
(* Output quoting: csv.writer(outfile, quoting=csv.QUOTE_ALL)              *)
(***************************************************************************)
RECURSIVE DoubleQuotes(_)
DoubleQuotes(s) ==
    IF s = <<>> THEN <<>>
    ELSE (IF Head(s) = "\"" THEN <<"\"", "\"">> ELSE <<Head(s)>>) \o DoubleQuotes(Tail(s))

QuoteField(f) == <<"\"">> \o DoubleQuotes(f) \o <<"\"">>

writerow(row) == Join([k \in 1..Len(row) |-> QuoteField(row[k])], <<",">>) \o <<"\r", "\n">>

(***************************************************************************)
(* Duplicate detector (the pass over repaired_rows after the row loop)     *)
(***************************************************************************)
\* int(text): optional sign, digits, single underscores between digits
IsPyInt(t) ==
    LET body == IF t # <<>> /\ t[1] \in {"+", "-"} THEN Tail(t) ELSE t
    IN /\ body # <<>>
       /\ \A i \in 1..Len(body) : body[i] \in Digits \cup {"_"}
       /\ body[1] \in Digits /\ body[Len(body)] \in Digits
       /\ \A i \in 1..(Len(body) - 1) : ~(body[i] = "_" /\ body[i + 1] = "_")

\* str(int(text))
PyIntText(t) ==
    LET neg == t[1] = "-"
        body == IF t[1] \in {"+", "-"} THEN Tail(t) ELSE t
        mag == LStripSet(Keep(body, Digits), {"0"})
    IN IF mag = <<>> THEN <<"0">> ELSE IF neg THEN <<"-">> \o mag ELSE mag

norm_size_of(size_field) ==
    LET t == Strip(size_field) IN IF IsPyInt(t) THEN PyIntText(t) ELSE t

norm_crc_of(crc_field) == Prefix(ZFill(Upper(Keep(crc_field, HexChars)), CrcWidth), CrcWidth)

IsHeaderRow(idx, header_detected, row_line_numbers) ==
    header_detected /\ idx = 1 /\ row_line_numbers[idx] = 1

\* the key of a row, or None when the row is left out of crc_map
dup_key_mut_crc_only(row) ==
    IF Keep(row[3], HexChars) = <<>> THEN None
    ELSE Some(norm_crc_of(row[3]) \o <<":">>)

dup_key(row) ==
    LET crc_field == IF Len(row) >= 3 THEN row[3] ELSE <<>>
        size_field == IF Len(row) >= 2 THEN row[2] ELSE <<>>
    IN IF Keep(crc_field, HexChars) = <<>> THEN None
       ELSE Some(norm_crc_of(crc_field) \o <<":">> \o norm_size_of(size_field))

crc_map_key(rows, row_line_numbers, header_detected, idx) ==
    IF IsHeaderRow(idx, header_detected, row_line_numbers) THEN None ELSE dup_key(rows[idx])

DupIssue(line_num, key, lines, orig) ==
    LET c == Min({i \in 1..Len(key) : key[i] = ":"})
    IN [line_num |-> line_num, field_num |-> 3, field_name |-> "CRC32",
        issue_type |-> "Duplicate CRC32 value found", original_value |-> orig,
        repaired_value |-> None,
        dup |-> [crc_part |-> SubSeq(key, 1, c - 1),
                 size_part |-> SubSeq(key, c + 1, Len(key)),
                 lines_list |-> lines]]

\* the issues of the groups whose key is first seen at index idx or later
RECURSIVE duplicate_issues(_, _, _, _)
duplicate_issues(rows, row_line_numbers, header_detected, idx) ==
    IF idx > Len(rows) THEN <<>>
    ELSE
      LET K(i) == crc_map_key(rows, row_line_numbers, header_detected, i)
          key == K(idx)
          first == key # None /\ \A i \in 1..(idx - 1) : K(i) # key
          indices == SelectSeq([i \in 1..Len(rows) |-> i], LAMBDA i : K(i) = key)
          lines == [k \in 1..Len(indices) |-> row_line_numbers[indices[k]]]
          here == IF first /\ Len(indices) > 1
                  THEN [k \in 1..Len(indices) |->
                          DupIssue(row_line_numbers[indices[k]], key[1], lines,
                                   IF Len(rows[indices[k]]) >= 3
                                   THEN rows[indices[k]][3] ELSE <<>>)]
                  ELSE <<>>
      IN here \o duplicate_issues(rows, row_line_numbers, header_detected, idx + 1)

(***************************************************************************)
(* Row loop of validate_and_repair_csv                                     *)
(***************************************************************************)
HeaderNameLabels == {<<"f","i","l","e","n","a","m","e">>, <<"f","i","l","e">>,
                     <<"n","a","m","e">>}
HeaderCrcLabels == {<<"c","r","c","3","2">>, <<"c","r","c">>,
                    <<"c","h","e","c","k","s","u","m">>}

\* mutant: a header is looked for on every line
is_header_mut_any_line(line_num, fields) ==
    /\ Len(fields) >= 3
    /\ (Lower(fields[1]) \in HeaderNameLabels \/ Lower(fields[3]) \in HeaderCrcLabels)

is_header(line_num, fields) ==
    /\ line_num = 1
    /\ Len(fields) >= 3
    /\ (Lower(fields[1]) \in HeaderNameLabels \/ Lower(fields[3]) \in HeaderCrcLabels)

InsufficientIssue(line_num, found, raw_line) ==
    Issue(line_num, 0, "Row",
          CASE found = 1 -> "Insufficient fields (found 1, expected at least 4)"
            [] found = 2 -> "Insufficient fields (found 2, expected at least 4)"
            [] found = 3 -> "Insufficient fields (found 3, expected at least 4)",
          Strip(raw_line), None)

RECURSIVE PadTo(_, _)
PadTo(fields, n) == IF Len(fields) >= n THEN fields ELSE PadTo(Append(fields, <<>>), n)

\* the body of the loop for a data row: [row |-> repaired_row, iss |-> issues]
validate_row(fields0, line_num, raw_line, issues, o) ==
    LET short == Len(fields0) < 4
        i0 == IF short
              THEN Append(issues, InsufficientIssue(line_num, Len(fields0), raw_line))
              ELSE issues
        fields == PadTo(fields0, 4)
        \* the two calls whose results are overwritten below
        a1 == validate_filename(fields[1], line_num, i0, o.repair)
        a2 == validate_size(fields[2], line_num, a1.iss, o.repair)
        filename_repair == o.repair /\ ~o.normalize_only
        size_repair == o.repair /\ ~o.normalize_only
        path_repair == o.repair /\ ~o.normalize_only
        crc_repair == o.normalize_crc32 \/ o.repair
        filename == validate_filename(fields[1], line_num, a2.iss, filename_repair)
        size == validate_size(fields[2], line_num, filename.iss, size_repair)
        crc32 == validate_crc32(fields[3], line_num, size.iss, crc_repair)
        path == validate_path(fields[4], line_num, crc32.iss, path_repair)
        comment == IF Len(fields) >= 5
                   THEN validate_comment(Join(SubSeq(fields, 5, Len(fields)), <<",">>),
                                         line_num, path.iss)
                   ELSE <<>>
    IN [row |-> <<filename.val, size.val, crc32.val, path.val, comment>>,
        iss |-> path.iss]

\* one iteration of "for raw_line in file_content" on the loop state
\* [line_num, repaired_rows, row_line_numbers, issues, header_detected]
process_line(raw_line, st, o) ==
    IF Strip(raw_line) = <<>> THEN st
    ELSE
      LET ln == st.line_num + 1
          p == parse_csv_line_with_quotes(raw_line, Some(ln), Some(st.issues))
          fields == p.fields
      IN IF fields = <<>> \/ (Len(fields) = 1 /\ fields[1] = <<>>)
         THEN [st EXCEPT !.line_num = ln, !.issues = p.iss[1]]
         ELSE IF is_header(ln, fields)
         THEN [st EXCEPT !.line_num = ln, !.issues = p.iss[1], !.header_detected = TRUE,
                         !.repaired_rows = Append(@, fields),
                         !.row_line_numbers = Append(@, ln)]
         ELSE LET r == validate_row(fields, ln, raw_line, p.iss[1], o)
              IN [st EXCEPT !.line_num = ln, !.issues = r.iss,
                            !.repaired_rows = Append(@, r.row),
                            !.row_line_numbers = Append(@, ln)]

(***************************************************************************)
(* Characters, bytes and codecs                                            *)
(*                                                                         *)
(* A character is a one-character string when it is ASCII and the name of   *)
(* its code point ("U+00E9") otherwise; a byte is a number in 0..255.       *)
(***************************************************************************)
\* the printable ASCII characters: Ascii[b - 31] is the character of byte b
\* (the grave accent, which a string of this language cannot hold, by its name)
Ascii == <<" ", "!", "\"", "#", "$", "%", "&", "'", "(", ")", "*", "+", ",", "-", ".", "/",
          "0", "1", "2", "3", "4", "5", "6", "7", "8", "9", ":", ";", "<", "=", ">", "?",
          "@", "A", "B", "C", "D", "E", "F", "G", "H", "I", "J", "K", "L", "M", "N", "O",
          "P", "Q", "R", "S", "T", "U", "V", "W", "X", "Y", "Z", "[", "\\", "]", "^", "_",
          "U+0060", "a", "b", "c", "d", "e", "f", "g", "h", "i", "j", "k", "l", "m", "n", "o",
          "p", "q", "r", "s", "t", "u", "v", "w", "x", "y", "z", "{", "|", "}", "~">>

\* the byte of each ASCII character
AsciiCode ==
    "\t" :> 9 @@ "\n" :> 10 @@ "\r" :> 13 @@ " " :> 32 @@ "!" :> 33 @@ "\"" :> 34 @@ "#" :> 35
    @@ "$" :> 36 @@ "%" :> 37 @@ "&" :> 38 @@ "'" :> 39 @@ "(" :> 40 @@ ")" :> 41 @@ "*" :> 42
    @@ "+" :> 43 @@ "," :> 44 @@ "-" :> 45 @@ "." :> 46 @@ "/" :> 47 @@ "0" :> 48 @@ "1" :> 49
    @@ "2" :> 50 @@ "3" :> 51 @@ "4" :> 52 @@ "5" :> 53 @@ "6" :> 54 @@ "7" :> 55 @@ "8" :> 56
    @@ "9" :> 57 @@ ":" :> 58 @@ ";" :> 59 @@ "<" :> 60 @@ "=" :> 61 @@ ">" :> 62 @@ "?" :> 63
    @@ "@" :> 64 @@ "A" :> 65 @@ "B" :> 66 @@ "C" :> 67 @@ "D" :> 68 @@ "E" :> 69 @@ "F" :> 70
    @@ "G" :> 71 @@ "H" :> 72 @@ "I" :> 73 @@ "J" :> 74 @@ "K" :> 75 @@ "L" :> 76 @@ "M" :> 77
    @@ "N" :> 78 @@ "O" :> 79 @@ "P" :> 80 @@ "Q" :> 81 @@ "R" :> 82 @@ "S" :> 83 @@ "T" :> 84
    @@ "U" :> 85 @@ "V" :> 86 @@ "W" :> 87 @@ "X" :> 88 @@ "Y" :> 89 @@ "Z" :> 90 @@ "[" :> 91
    @@ "\\" :> 92 @@ "]" :> 93 @@ "^" :> 94 @@ "_" :> 95 @@ "U+0060" :> 96 @@ "a" :> 97 @@ "b" :> 98
    @@ "c" :> 99 @@ "d" :> 100 @@ "e" :> 101 @@ "f" :> 102 @@ "g" :> 103 @@ "h" :> 104 @@ "i" :> 105
    @@ "j" :> 106 @@ "k" :> 107 @@ "l" :> 108 @@ "m" :> 109 @@ "n" :> 110 @@ "o" :> 111 @@ "p" :> 112
    @@ "q" :> 113 @@ "r" :> 114 @@ "s" :> 115 @@ "t" :> 116 @@ "u" :> 117 @@ "v" :> 118 @@ "w" :> 119
    @@ "x" :> 120 @@ "y" :> 121 @@ "z" :> 122 @@ "{" :> 123 @@ "|" :> 124 @@ "}" :> 125 @@ "~" :> 126
AsciiChars == DOMAIN AsciiCode

IsAsciiByte(b) == b \in 32..126 \/ b \in {9, 10, 13}
ascii_char(b) == CASE b = 9 -> "\t" [] b = 10 -> "\n" [] b = 13 -> "\r"
                   [] OTHER -> Ascii[b - 31]
ascii_byte(c) == AsciiCode[c]
IsAsciiChar(c) == c \in AsciiChars

\* the bytes above 127 (and NUL) that the files of the model can hold
HighBytes == {0, 129, 169, 177, 187, 191, 194, 195, 233, 239, 241, 254, 255}

\* the decoding tables of the 8-bit codecs on those bytes; "" where the codec
\* has no character for the byte (decoding raises UnicodeDecodeError)
cp1250_table ==
    0 :> "U+0000" @@ 129 :> "" @@ 169 :> "U+00A9" @@ 177 :> "U+00B1" @@ 187 :> "U+00BB"
    @@ 191 :> "U+017C" @@ 194 :> "U+00C2" @@ 195 :> "U+0102" @@ 233 :> "U+00E9"
    @@ 239 :> "U+010F" @@ 241 :> "U+0144" @@ 254 :> "U+0163" @@ 255 :> "U+02D9"

cp1252_table ==
    0 :> "U+0000" @@ 129 :> "" @@ 169 :> "U+00A9" @@ 177 :> "U+00B1" @@ 187 :> "U+00BB"
    @@ 191 :> "U+00BF" @@ 194 :> "U+00C2" @@ 195 :> "U+00C3" @@ 233 :> "U+00E9"
    @@ 239 :> "U+00EF" @@ 241 :> "U+00F1" @@ 254 :> "U+00FE" @@ 255 :> "U+00FF"

latin_1_table ==
    0 :> "U+0000" @@ 129 :> "U+0081" @@ 169 :> "U+00A9" @@ 177 :> "U+00B1" @@ 187 :> "U+00BB"
    @@ 191 :> "U+00BF" @@ 194 :> "U+00C2" @@ 195 :> "U+00C3" @@ 233 :> "U+00E9"
    @@ 239 :> "U+00EF" @@ 241 :> "U+00F1" @@ 254 :> "U+00FE" @@ 255 :> "U+00FF"

iso_8859_2_table ==
    0 :> "U+0000" @@ 129 :> "U+0081" @@ 169 :> "U+0160" @@ 177 :> "U+0105" @@ 187 :> "U+0165"
    @@ 191 :> "U+017C" @@ 194 :> "U+00C2" @@ 195 :> "U+0102" @@ 233 :> "U+00E9"
    @@ 239 :> "U+010F" @@ 241 :> "U+0144" @@ 254 :> "U+0163" @@ 255 :> "U+02D9"

charmap_table(codec) ==
    CASE codec = "cp1250" -> cp1250_table
      [] codec = "cp1252" -> cp1252_table
      [] codec \in {"latin-1", "iso-8859-1"} -> latin_1_table
      [] codec = "iso-8859-2" -> iso_8859_2_table

charmap_decode_byte(codec, b) ==
    IF IsAsciiByte(b) THEN ascii_char(b) ELSE charmap_table(codec)[b]

\* bytes.decode(codec) of an 8-bit codec: None when a byte has no character
charmap_decode(codec, bytes) ==
    IF \E i \in 1..Len(bytes) : charmap_decode_byte(codec, bytes[i]) = ""
    THEN None
    ELSE Some([i \in 1..Len(bytes) |-> charmap_decode_byte(codec, bytes[i])])

\* the two-byte UTF-8 sequences over HighBytes, and the three bytes of the BOM
Utf8Pairs ==
    <<194, 129>> :> "U+0081" @@ <<194, 169>> :> "U+00A9" @@ <<194, 177>> :> "U+00B1"
    @@ <<194, 187>> :> "U+00BB" @@ <<194, 191>> :> "U+00BF" @@ <<195, 129>> :> "U+00C1"
    @@ <<195, 169>> :> "U+00E9" @@ <<195, 177>> :> "U+00F1" @@ <<195, 187>> :> "U+00FB"
    @@ <<195, 191>> :> "U+00FF"
BOM_UTF8 == <<239, 187, 191>>
BOMChar == "U+FEFF"

Utf8Continuation == 128..191

\* the character that starts at byte i of UTF-8 data: "" at a continuation
\* byte that belongs to the character before it, "?" where the data is not
\* UTF-8. Of the lead bytes only C2, C3 and the EF of the BOM are followed by
\* continuation bytes in the files of the model.
utf_8_char_at(bytes, i) ==
    LET n == Len(bytes)
        b == bytes[i]
    IN IF IsAsciiByte(b) THEN ascii_char(b)
       ELSE IF b = 0 THEN "U+0000"
       ELSE IF b \in Utf8Continuation
       THEN IF \/ i > 1 /\ <<bytes[i - 1], b>> \in DOMAIN Utf8Pairs
               \/ i > 1 /\ i < n /\ <<bytes[i - 1], b, bytes[i + 1]>> = BOM_UTF8
               \/ i > 2 /\ <<bytes[i - 2], bytes[i - 1], b>> = BOM_UTF8
            THEN "" ELSE "?"
       ELSE IF i < n /\ <<b, bytes[i + 1]>> \in DOMAIN Utf8Pairs
       THEN Utf8Pairs[<<b, bytes[i + 1]>>]
       ELSE IF i + 1 < n /\ <<b, bytes[i + 1], bytes[i + 2]>> = BOM_UTF8
       THEN BOMChar
       ELSE "?"

\* bytes.decode('utf-8'): None on a byte sequence that is not UTF-8
utf_8_decode(bytes) ==
    LET chars == [i \in 1..Len(bytes) |-> utf_8_char_at(bytes, i)]
    IN IF \E i \in 1..Len(chars) : chars[i] = "?" THEN None
       ELSE Some(SelectSeq(chars, LAMBDA c : c # ""))

\* 'utf-8-sig' drops one leading BOM
utf_8_sig_decode(bytes) ==
    IF Len(bytes) >= 3 /\ SubSeq(bytes, 1, 3) = BOM_UTF8
    THEN utf_8_decode(SubSeq(bytes, 4, Len(bytes)))
    ELSE utf_8_decode(bytes)

BOM_UTF16_LE == <<255, 254>>

\* little-endian code units; an odd number of bytes is truncated data. The
\* code units of the files of the model have a zero high byte, so each names
\* a Latin-1 character.
utf_16_le_decode(bytes) ==
    IF Len(bytes) % 2 = 1 \/ \E i \in 1..Len(bytes) : i % 2 = 0 /\ bytes[i] # 0
    THEN None
    ELSE Some([k \in 1..(Len(bytes) \div 2) |->
                  charmap_decode_byte("latin-1", bytes[2 * k - 1])])

\* 'utf-16': a leading FF FE is the byte order mark
utf_16_decode(bytes) ==
    IF Len(bytes) >= 2 /\ SubSeq(bytes, 1, 2) = BOM_UTF16_LE
    THEN utf_16_le_decode(SubSeq(bytes, 3, Len(bytes)))
    ELSE utf_16_le_decode(bytes)

\* open(input_file, 'r', newline='', encoding=codec).read(): Some(text), or
\* None when decoding raises
decode(codec, bytes) ==
    CASE codec = "utf-8" -> utf_8_decode(bytes)
      [] codec = "utf-8-sig" -> utf_8_sig_decode(bytes)
      [] codec = "utf-16" -> utf_16_decode(bytes)
      [] codec \in {"utf-32", "utf-32-be"} -> None
      [] OTHER -> charmap_decode(codec, bytes)

\* the Latin-1 byte of the characters above ASCII that the files hold
Latin1Byte == "U+00E9" :> 233 @@ "U+00F1" :> 241 @@ "U+0081" :> 129
\* the UTF-8 bytes of the characters that decoding can produce
Utf8Bytes ==
    "U+0000" :> <<0>> @@ "U+0081" :> <<194, 129>> @@ "U+00A9" :> <<194, 169>>
    @@ "U+00B1" :> <<194, 177>> @@ "U+00BB" :> <<194, 187>> @@ "U+00BF" :> <<194, 191>>
    @@ "U+00C1" :> <<195, 129>> @@ "U+00C2" :> <<195, 130>> @@ "U+00C3" :> <<195, 131>>
    @@ "U+00E9" :> <<195, 169>> @@ "U+00EF" :> <<195, 175>> @@ "U+00F1" :> <<195, 177>>
    @@ "U+00FB" :> <<195, 187>> @@ "U+00FE" :> <<195, 190>> @@ "U+00FF" :> <<195, 191>>
    @@ "U+0102" :> <<196, 130>> @@ "U+0105" :> <<196, 133>> @@ "U+010F" :> <<196, 143>>
    @@ "U+0144" :> <<197, 132>> @@ "U+0160" :> <<197, 160>> @@ "U+0163" :> <<197, 163>>
    @@ "U+0165" :> <<197, 165>> @@ "U+017C" :> <<197, 188>> @@ "U+02D9" :> <<203, 153>>
    @@ "U+FEFF" :> <<239, 187, 191>>

RECURSIVE Concat(_)
Concat(ss) == IF ss = <<>> THEN <<>> ELSE Head(ss) \o Concat(Tail(ss))

latin_1_encode(text) ==
    [i \in 1..Len(text) |-> IF IsAsciiChar(text[i]) THEN ascii_byte(text[i])
                            ELSE Latin1Byte[text[i]]]
utf_8_encode(text) ==
    Concat([i \in 1..Len(text) |-> IF IsAsciiChar(text[i]) THEN <<ascii_byte(text[i])>>
                                   ELSE Utf8Bytes[text[i]]])
utf_16_le_encode(text) ==
    Concat([i \in 1..Len(text) |-> <<latin_1_encode(text)[i], 0>>])

\* the bytes of a text given by its lines
latin_1_lines(lines) == Concat([k \in 1..Len(lines) |-> latin_1_encode(lines[k])])
utf_8_lines(lines) == Concat([k \in 1..Len(lines) |-> utf_8_encode(lines[k])])
utf_16_le_lines(lines) == Concat([k \in 1..Len(lines) |-> utf_16_le_encode(lines[k])])

\* how the file on disk was written: in UTF-8 without or with a BOM, in
\* Latin-1, in UTF-16 with a BOM, or in Latin-1 behind a UTF-8 BOM
WrittenAs == {"utf-8", "utf-8-sig", "latin-1", "utf-16", "utf-8-bom+latin-1"}

\* readlines() with newline='': the text cut after each "\n"
readlines(text) ==
    LET n == Len(text)
        ends == SelectSeq([i \in 1..n |-> i], LAMBDA i : text[i] = "\n")
        m == Len(ends)
        whole == [k \in 1..m |-> SubSeq(text, IF k = 1 THEN 1 ELSE ends[k - 1] + 1, ends[k])]
        last == IF m = 0 THEN 0 ELSE ends[m]
    IN IF last < n THEN Append(whole, SubSeq(text, last + 1, n)) ELSE whole

(***************************************************************************)
(* Encoding resolver (BOM detection, then the fallback list)               *)
(***************************************************************************)
Utf8Names == {"utf-8", "utf-8-sig"}

StartsWith(bytes, prefix) ==
    Len(bytes) >= Len(prefix) /\ SubSeq(bytes, 1, Len(prefix)) = prefix

\* header = bf.read(4): the BOM signatures
detect_bom(bytes) ==
    LET header == SubSeq(bytes, 1, Min({4, Len(bytes)}))
    IN CASE StartsWith(header, <<255, 254, 0, 0>>) -> Some("utf-32")
         [] StartsWith(header, <<0, 0, 254, 255>>) -> Some("utf-32-be")
         [] StartsWith(header, <<255, 254>>) -> Some("utf-16")
         [] StartsWith(header, <<254, 255>>) -> Some("utf-16")
         [] StartsWith(header, BOM_UTF8) -> Some("utf-8-sig")
         [] OTHER -> None

encodings_to_try == <<"utf-8-sig", "utf-8", "mbcs", "cp1250", "cp1252", "latin-1",
                      "iso-8859-1", "iso-8859-2", "utf-16">>

\* the codecs of a CPython on a platform other than win32 ('mbcs' is dropped
\* from the list there), and those of a build that ships the UTF-8 codecs only
AllCodecs == {"utf-8-sig", "utf-8", "cp1250", "cp1252", "latin-1", "iso-8859-1",
              "iso-8859-2", "utf-16", "utf-32", "utf-32-be"}
Utf8Codecs == {"utf-8-sig", "utf-8"}

\* supported_encodings: the names that codecs.lookup finds
supported_encodings(supported) == SelectSeq(encodings_to_try, LAMBDA e : e \in supported)

\* the result of a successful open-and-readlines
Decoded(encoding, text) == Some([encoding |-> encoding, text |-> text])

\* open(input_file, 'r', newline='', encoding=encoding) and readlines():
\* LookupError for a codec the platform lacks, UnicodeDecodeError otherwise
try_decode(encoding, bytes, supported) ==
    IF encoding \in supported THEN decode(encoding, bytes) ELSE None

\* mutant: every file "decodes" to nothing, without a probe
fallback_encoding_mut_decode_nothing(bytes, candidates, supported, tried) ==
    [result |-> Decoded("utf-8", <<>>), tried |-> tried]

\* mutant: the loop has no break, the last encoding that decodes wins
RECURSIVE fallback_encoding_mut_no_break(_, _, _, _)
fallback_encoding_mut_no_break(bytes, candidates, supported, tried) ==
    IF candidates = <<>> THEN [result |-> None, tried |-> tried]
    ELSE LET text == try_decode(Head(candidates), bytes, supported)
             rest == fallback_encoding_mut_no_break(bytes, Tail(candidates), supported,
                                                    Append(tried, Head(candidates)))
         IN IF text # None /\ rest.result = None
            THEN [result |-> Decoded(Head(candidates), text[1]), tried |-> rest.tried]
            ELSE rest

\* for encoding in encodings_to_try: the first one that decodes the whole file;
\* tried lists the encodings the file was opened with, in order
RECURSIVE fallback_encoding(_, _, _, _)
fallback_encoding(bytes, candidates, supported, tried) ==
    IF candidates = <<>> THEN [result |-> None, tried |-> tried]
    ELSE LET text == try_decode(Head(candidates), bytes, supported)
         IN IF text # None
            THEN [result |-> Decoded(Head(candidates), text[1]),
                  tried |-> Append(tried, Head(candidates))]
            ELSE fallback_encoding(bytes, Tail(candidates), supported,
                                   Append(tried, Head(candidates)))

\* [result |-> None, or the encoding used and the decoded text, tried |-> the probes]
resolve_encoding(bytes, supported) ==
    LET detected == detect_bom(bytes)
        text == IF detected = None THEN None
                ELSE try_decode(detected[1], bytes, supported)
    IN IF text # None
       THEN [result |-> Decoded(detected[1], text[1]), tried |-> detected]
       ELSE fallback_encoding(bytes, supported_encodings(supported), supported, detected)

InputFile == <<"i","n",".","c","s","v">>

EncodingIssue(enc) ==
    Issue(0, 0, "File", "Non-UTF-8 encoding detected: " \o enc, InputFile, None)

encoding_issues_mut_ignore_flag(encoding, o) ==
    IF encoding \notin Utf8Names THEN <<EncodingIssue(encoding)>> ELSE <<>>

\* the issue list after the file is decoded
encoding_issues(encoding, o) ==
    IF encoding \notin Utf8Names /\ o.flag_nonutf8
    THEN <<EncodingIssue(encoding)>> ELSE <<>>

(***************************************************************************)
(* State                                                                   *)
(***************************************************************************)
VARIABLES
    opts,              \* the keyword arguments of validate_and_repair_csv
    disk,              \* the input file: [rows, enc]
    fs,                \* what the run leaves on disk: [dirs, output, log, archive, moved]
    pc,                \* position of the run
    file_content,      \* the decoded lines, None before decoding
    encoding_used,
    pos,               \* number of lines of file_content consumed by the loop
    loop,              \* [line_num, repaired_rows, row_line_numbers, issues, header_detected]
    ret,               \* the returned tuple, None while running
    call,              \* the validator call of the validator specification
    cli,               \* the command line: [mode, use_subfolders, queue, output_file,
                       \* log_file, results, exit]
    run,               \* [number, first]: which run on the input file this is, and
                       \* what the first run returned
    probed             \* the encodings the input file was opened with, in order

vars == <<opts, disk, fs, pc, file_content, encoding_used, pos, loop, ret, call, cli, run,
          probed>>

OptionNames == {"dry_run", "use_subfolders", "archive_original", "skip_rewrite_if_clean",
                "normalize_crc32", "normalize_only", "flag_nonutf8", "repair"}
AllOptions == [OptionNames -> BOOLEAN]
\* the defaults of the signature: every flag off
DefaultOptions == [n \in OptionNames |-> FALSE]
RowOptionNames == {"normalize_crc32", "normalize_only", "repair"}
RowOptions == {o \in AllOptions : \A n \in OptionNames \ RowOptionNames : ~o[n]}

(***************************************************************************)
(* Input files                                                             *)
(***************************************************************************)
ABCDEF12 == <<"A","B","C","D","E","F","1","2">>
abcdef12 == <<"a","b","c","d","e","f","1","2">>
Plain(fields) == [fields |-> fields, quoted |-> FALSE]
Quoted(fields) == [fields |-> fields, quoted |-> TRUE]

RowClean == Plain(<< <<"a">>, <<"1","0">>, ABCDEF12, <<"p">> >>)
RowSameKey == Plain(<< <<"b">>, <<"0","1","0">>, abcdef12, <<"p">> >>)
RowOtherSize == Plain(<< <<"a">>, <<"2","0">>, ABCDEF12, <<"p">> >>)
RowNoHex == Plain(<< <<"a">>, <<"1","0">>, <<"z","z">>, <<"p">> >>)
RowHeader4 == Plain(<< <<"F","i","l","e","N","a","m","e">>, <<"S","i","z","e">>,
                       <<"C","R","C","3","2">>, <<"P","a","t","h">> >>)
RowDefects == Plain(<< <<>>, <<"1","0">>, <<"A","B">>, <<" ","p","<">>, <<"c">>, <<" ","d">> >>)
RowShort == Plain(<< <<"a">>, <<"1","0">> >>)
RowQuotedClean == Quoted(<< <<"a">>, <<"1","0">>, ABCDEF12, <<"\\","p","\\">>, <<"c",",","d">> >>)
RowQuotedBackslashes ==
    Quoted(<< <<"a">>, <<"1","0">>, ABCDEF12, <<"x","\\","\\",",","y">>, <<"c">> >>)

\* a line of spaces, and a line holding one quoted empty field
RowBlank == Plain(<< <<" ">> >>)
RowEmptyQuoted == Quoted(<< <<>> >>)

\* rows of the files of the row-loop specification
SampleRows == {RowClean, RowSameKey, RowOtherSize, RowNoHex, RowHeader4, RowDefects,
               RowShort, RowQuotedClean, RowQuotedBackslashes, RowBlank, RowEmptyQuoted}
\* rows of the files of the whole-run specification
RunRows == {RowClean, RowNoHex, RowHeader4}

FilesOf(rows, n) == UNION {[1..k -> rows] : k \in 0..n}

\* the line as written on disk, with its line end
render(r) ==
    Join(IF r.quoted THEN [k \in 1..Len(r.fields) |-> QuoteField(r.fields[k])]
                     ELSE r.fields, <<",">>) \o <<"\n">>

\* a UTF-8 file, a Latin-1 file, a file that cannot be opened
EncUtf8 == [readable |-> TRUE, written |-> "utf-8", supported |-> AllCodecs]
EncLatin1 == [readable |-> TRUE, written |-> "latin-1", supported |-> AllCodecs]
EncUnreadable == [readable |-> FALSE, written |-> "utf-8", supported |-> AllCodecs]
EncodingCases == {EncUtf8, EncLatin1, EncUnreadable}

\* the bytes of the input file
file_lines(d) == [k \in 1..Len(d.rows) |-> render(d.rows[k])]
file_bytes(d) ==
    CASE d.enc.written = "utf-8" -> utf_8_lines(file_lines(d))
      [] d.enc.written = "utf-8-sig" -> BOM_UTF8 \o utf_8_lines(file_lines(d))
      [] d.enc.written = "latin-1" -> latin_1_lines(file_lines(d))
      [] d.enc.written = "utf-16" -> BOM_UTF16_LE \o utf_16_le_lines(file_lines(d))
      [] d.enc.written = "utf-8-bom+latin-1" -> BOM_UTF8 \o latin_1_lines(file_lines(d))

SubDirs == {"CleanCSVs", "Logs", "Archive"}

EmptyLoop == [line_num |-> 0, repaired_rows |-> <<>>, row_line_numbers |-> <<>>,
              issues |-> <<>>, header_detected |-> FALSE]

\* validate_and_repair_csv called with output_file=None and log_file=None
NoCli == [mode |-> "single", use_subfolders |-> FALSE, queue |-> <<>>, csv_files |-> <<>>,
          output_file |-> None, log_file |-> None,
          results |-> [total_files |-> 0, successful |-> 0, with_issues |-> 0, failed |-> 0,
                       files |-> <<>>],
          exit |-> None]

FirstRun == [number |-> 1, first |-> None]

NoCall == [done |-> FALSE, field |-> "", value |-> <<>>, repair |-> FALSE,
           result |-> <<>>, issues |-> <<>>]

InitRun(files, options, encs, dirsets) ==
    /\ opts \in options
    /\ disk \in [rows : files, enc : encs]
    /\ fs \in [dirs : dirsets, output : {None}, log : {None}, archive : {FALSE},
               moved : {FALSE}]
    /\ pc = "Decoding"
    /\ file_content = None
    /\ encoding_used = None
    /\ pos = 0
    /\ loop = EmptyLoop
    /\ ret = None
    /\ call = NoCall
    /\ cli = NoCli
    /\ run = FirstRun
    /\ probed = <<>>

\* whole run: every option combination, fresh folder or one with the subfolders
Init == InitRun(FilesOf(RunRows, MaxFileLines), AllOptions, EncodingCases, {{}, SubDirs})

\* row loop: the options the loop reads, over more varied files
RowInit == InitRun(FilesOf(SampleRows, MaxLines), RowOptions, {EncUtf8}, {{}})

(***************************************************************************)
(* validate_and_repair_csv                                                 *)
(***************************************************************************)
\* the folder of output_file and of log_file: the one of the path given by the
\* caller, or of the default path
output_dir(o) == IF cli.output_file # None THEN cli.output_file[1]
                 ELSE IF o.use_subfolders THEN "CleanCSVs" ELSE "."
log_dir(o) == IF cli.log_file # None THEN cli.log_file[1]
              ELSE IF o.use_subfolders THEN "Logs" ELSE "."
DirExists(d) == d = "." \/ d \in fs.dirs

FailedResult == [issues |-> None, rows |-> 0, output_file |-> None, archive_path |-> None]

\* the call raised instead of returning: the caller gets no tuple
RaisedError == [issues |-> None, rows |-> 0, output_file |-> None, archive_path |-> None,
                raised |-> TRUE]

\* from the entry of the function to the start of the loop: default paths,
\* subfolders, BOM detection, decoding
Decode ==
    /\ pc = "Decoding"
    /\ fs' = [fs EXCEPT !.dirs = IF opts.use_subfolders /\ ~opts.dry_run
                                 THEN fs.dirs \cup SubDirs ELSE fs.dirs]
    /\ \E r \in {IF disk.enc.readable /\ ~fs.moved
                THEN resolve_encoding(file_bytes(disk), disk.enc.supported)
                ELSE [result |-> None, tried |-> <<>>]} :
          /\ probed' = r.tried
          /\ IF r.result = None
             THEN /\ pc' = "Done"
                  /\ ret' = Some(FailedResult)
                  /\ UNCHANGED <<file_content, encoding_used, loop>>
             ELSE /\ pc' = "Parsing"
                  /\ \E lines \in {readlines(r.result[1].text)} :
                        file_content' = Some([k \in 1..Len(lines) |->
                                                IF k = 1 THEN LStripSet(lines[k], {BOMChar})
                                                ELSE lines[k]])
                  /\ encoding_used' = Some(r.result[1].encoding)
                  /\ loop' = [loop EXCEPT !.issues =
                                  encoding_issues(r.result[1].encoding, opts)]
                  /\ UNCHANGED ret
    /\ UNCHANGED <<opts, disk, pos, call, cli, run>>

ProcessLine ==
    /\ pc = "Parsing"
    /\ pos < Len(file_content[1])
    /\ pos' = pos + 1
    /\ loop' = process_line(file_content[1][pos + 1], loop, opts)
    /\ UNCHANGED <<opts, disk, fs, pc, file_content, encoding_used, ret, call, cli, run, probed>>

\* mutant: the duplicate issues are put in front of the list
append_duplicates_mut_prepend(issues, dups) == dups \o issues

\* issues.append(...) for every duplicate issue, in the order they are found
append_duplicates(issues, dups) == issues \o dups

\* the loop is over: the duplicate pass
CheckDuplicates ==
    /\ pc = "Parsing"
    /\ pos = Len(file_content[1])
    /\ loop' = [loop EXCEPT !.issues =
                   append_duplicates(@, duplicate_issues(loop.repaired_rows,
                                        loop.row_line_numbers, loop.header_detected, 1))]
    /\ pc' = "Writing"
    /\ UNCHANGED <<opts, disk, fs, file_content, encoding_used, pos, ret, call, cli, run, probed>>

write_decision_mut_ignore_skip(o, issues) == ~o.dry_run

\* TRUE when the output CSV is to be written
write_decision(o, issues) == ~o.dry_run /\ ~(o.skip_rewrite_if_clean /\ issues = <<>>)

WriteOutput ==
    /\ pc = "Writing"
    /\ IF write_decision(opts, loop.issues)
       THEN IF DirExists(output_dir(opts))
            THEN /\ fs' = [fs EXCEPT !.output =
                              Some([k \in 1..Len(loop.repaired_rows) |->
                                      writerow(loop.repaired_rows[k])])]
                 /\ pc' = "Logging"
                 /\ UNCHANGED ret
            ELSE /\ pc' = "Done"
                 /\ ret' = Some(FailedResult)
                 /\ UNCHANGED fs
       ELSE /\ pc' = "Logging"
            /\ UNCHANGED <<fs, ret>>
    /\ UNCHANGED <<opts, disk, file_content, encoding_used, pos, loop, call, cli, run, probed>>

log_decision(o, issues) == issues # <<>> \/ o.normalize_crc32

LogText(o, st) ==
    [mode |-> IF o.dry_run THEN "DRY RUN (validation only)" ELSE "REPAIR",
     normalize_crc32 |-> o.normalize_crc32, normalize_only |-> o.normalize_only,
     total_rows |-> st.line_num, total_issues |-> Len(st.issues),
     header_detected |-> st.header_detected, issues |-> st.issues]

WriteLog ==
    /\ pc = "Logging"
    /\ IF log_decision(opts, loop.issues)
       THEN IF DirExists(log_dir(opts))
            THEN /\ fs' = [fs EXCEPT !.log = Some(LogText(opts, loop))]
                 /\ pc' = "Archiving"
                 /\ UNCHANGED ret
            ELSE /\ pc' = "Done"
                 /\ ret' = Some(FailedResult)
                 /\ UNCHANGED fs
       ELSE /\ pc' = "Archiving"
            /\ UNCHANGED <<fs, ret>>
    /\ UNCHANGED <<opts, disk, file_content, encoding_used, pos, loop, call, cli, run, probed>>

archive_decision_mut_in_dry_run(o) == o.archive_original

archive_decision(o) == o.archive_original /\ ~o.dry_run

\* archive_csv_file(input_file, archive_folder, run_timestamp, move_original=True)
\* and the return of the tuple
ArchiveAndReturn ==
    /\ pc = "Archiving"
    /\ LET arch == archive_decision(opts)
           written == write_decision(opts, loop.issues)
       IN /\ fs' = IF arch
                   THEN [fs EXCEPT !.dirs = @ \cup {"Archive"}, !.archive = TRUE,
                                   !.moved = TRUE]
                   ELSE fs
          /\ ret' = Some([issues |-> Some(loop.issues), rows |-> loop.line_num,
                          output_file |-> IF ~opts.dry_run /\ ~written THEN None
                                          ELSE Some(output_dir(opts)),
                          archive_path |-> IF arch THEN Some("Archive") ELSE None])
    /\ pc' = "Done"
    /\ UNCHANGED <<opts, disk, file_content, encoding_used, pos, loop, call, cli, run, probed>>

Next == Decode \/ ProcessLine \/ CheckDuplicates \/ WriteOutput \/ WriteLog
        \/ ArchiveAndReturn

Spec == Init /\ [][Next]_vars

RowNext == Decode \/ ProcessLine \/ CheckDuplicates

RowSpec == RowInit /\ [][RowNext]_vars

(***************************************************************************)
(* The field validators called on their own                                *)
(***************************************************************************)
NameChars == {"a", " ", "<", ":"}
SizeChars == {"1", "x", " "}
\* long checksum inputs over three characters, short ones over five
CrcChars == {"a", "1", "z"}
CrcCharsShort == {"a", "B", "1", "z", " "}

StringsOver(cs, n) == UNION {[1..k -> cs] : k \in 0..n}

ValInit == InitRun({<<>>}, {DefaultOptions}, {EncUtf8}, {{}})

Called(field, value, repair, r) ==
    /\ call' = [done |-> TRUE, field |-> field, value |-> value, repair |-> repair,
                result |-> r.val, issues |-> r.iss]
    /\ UNCHANGED <<opts, disk, fs, pc, file_content, encoding_used, pos, loop, ret, cli, run, probed>>

CallValidateFilename ==
    /\ ~call.done
    /\ \E value \in StringsOver(NameChars, MaxStrLen), repair \in BOOLEAN :
        Called("FileName", value, repair, validate_filename(value, 1, <<>>, repair))

CallValidateSize ==
    /\ ~call.done
    /\ \E value \in StringsOver(SizeChars, MaxStrLen), repair \in BOOLEAN :
        Called("Size", value, repair, validate_size(value, 1, <<>>, repair))

CallValidateCrc32 ==
    /\ ~call.done
    /\ \E value \in StringsOver(CrcChars, MaxCrcLen)
                      \cup StringsOver(CrcCharsShort, MaxStrLen), repair \in BOOLEAN :
        Called("CRC32", value, repair, validate_crc32(value, 1, <<>>, repair))

CallValidatePath ==
    /\ ~call.done
    /\ \E value \in StringsOver(NameChars, MaxStrLen), repair \in BOOLEAN :
        Called("Path", value, repair, validate_path(value, 1, <<>>, repair))

ValNext == CallValidateFilename \/ CallValidateSize \/ CallValidateCrc32
           \/ CallValidatePath

ValSpec == ValInit /\ [][ValNext]_vars

(***************************************************************************)
(* The line parser and the row loop called on one line                     *)
(***************************************************************************)
MaxLineLen == 4
MaxSegments == 2

LineChars == {"a", ",", "\"", "\\", "\r", "\n"}
CommentChars == {"c", ",", " ", "\\", "\""}
SegChars == {"x", " "}
PathSamples == {<<"p">>, <<"\\", "p", "\\">>}

\* an issue recorded before the line is parsed
PriorIssues == <<EncodingIssue("latin-1")>>

\* \seg\...\seg\
PathOf(segs) == <<"\\">> \o Concat([k \in 1..Len(segs) |-> Append(segs[k], "\\")])

LineInit == InitRun({<<>>}, {DefaultOptions}, {EncUtf8}, {{}})

LineCalled(field, value, repair, result, issues) ==
    /\ call' = [done |-> TRUE, field |-> field, value |-> value, repair |-> repair,
                result |-> result, issues |-> issues]
    /\ UNCHANGED <<opts, disk, fs, pc, file_content, encoding_used, pos, loop, ret, cli, run, probed>>

\* parse_csv_line_with_quotes(line, line_num, issues) on any short line, the
\* optional arguments given or left out
CallParseLine ==
    /\ ~call.done
    /\ \E line \in StringsOver(LineChars, MaxLineLen), line_num \in {None, Some(1)},
          issues \in {None, Some(<<>>), Some(PriorIssues)} :
        \E p \in {parse_csv_line_with_quotes(line, line_num, issues)} :
            LineCalled("line", [line |-> line, line_num |-> line_num, issues |-> issues],
                       FALSE, p.fields, p.iss)

\* parse_csv_line_with_quotes on the unquoted line name,size,checksum,\seg\...\seg\,comment
CallParseEscapedPath ==
    /\ ~call.done
    /\ \E n \in 1..MaxSegments :
       \E segs \in [1..n -> StringsOver(SegChars, MaxStrLen)],
          comment \in StringsOver(SegChars, MaxStrLen) :
        \E p \in {parse_csv_line_with_quotes(
                      Join(<< <<"a">>, <<"1","0">>, ABCDEF12, PathOf(segs), comment >>, <<",">>),
                      Some(1), Some(<<>>))} :
            LineCalled("escaped_path_line", [segs |-> segs, comment |-> comment],
                       FALSE, p.fields, p.iss)

\* one iteration of the row loop on the unquoted line name,size,checksum,path,text,
\* then the row as csv.writer writes it and as the parser reads it back
CallProcessLine ==
    /\ ~call.done
    /\ \E path \in PathSamples, text \in StringsOver(CommentChars, MaxStrLen),
          repair \in BOOLEAN :
        \E st \in {process_line(render(Plain(<< <<"a">>, <<"1","0">>, ABCDEF12, path, text >>)),
                                EmptyLoop, [DefaultOptions EXCEPT !.repair = repair])} :
            LineCalled("comment_line", [path |-> path, comment |-> text], repair,
                       [row |-> st.repaired_rows[1],
                        written |-> writerow(st.repaired_rows[1]),
                        reparsed |-> parse_csv_line_with_quotes(
                                         writerow(st.repaired_rows[1]), None, None).fields],
                       st.issues)

\* sample values of the five fields of an unquoted line
NameSamples == {<<"a">>, <<" ", "a">>, <<"a", "<">>, <<>>}
SizeSamples == {<<"1","0">>, <<" ","1","0">>, <<"x","1">>, <<"0","1","0">>}
CrcSamples == {ABCDEF12, abcdef12, <<"A","B">>, <<"0","x","A","B","C","D","E","F","1","2">>}
PathFieldSamples == {<<"p">>, <<" ","p">>, <<"p","<">>, <<"\\","p","\\">>}
CommentSamples == {<<>>, <<"c">>, <<" ","c"," ">>}

\* one iteration of the row loop on the unquoted line name,size,checksum,path,comment
\* under every setting of the options the loop reads
CallProcessRow ==
    /\ ~call.done
    /\ \E name \in NameSamples, size \in SizeSamples, crc \in CrcSamples,
          path \in PathFieldSamples, comment \in CommentSamples, o \in RowOptions :
        \E raw \in {render(Plain(<<name, size, crc, path, comment>>))} :
        \E st \in {process_line(raw, EmptyLoop, o)} :
            LineCalled("row_line", [line |-> raw, options |-> o], o.repair,
                       st.repaired_rows, st.issues)

LineNext == CallParseLine \/ CallParseEscapedPath \/ CallProcessLine \/ CallProcessRow

LineSpec == LineInit /\ [][LineNext]_vars

(***************************************************************************)
(* Runs over files in several encodings                                    *)
(***************************************************************************)
RowAccent == Plain(<< <<"U+00E9">>, <<"1","0">>, ABCDEF12, <<"p">> >>)
RowTilde == Plain(<< <<"U+00F1">>, <<"1","0">>, ABCDEF12, <<"p">> >>)
RowC1 == Plain(<< <<"U+0081">>, <<"1","0">>, ABCDEF12, <<"p">> >>)
EncRows == {RowClean, RowNoHex, RowAccent, RowTilde, RowC1}

EncOptionNames == {"flag_nonutf8", "dry_run", "repair"}
EncOptions == {o \in AllOptions : \A n \in OptionNames \ EncOptionNames : ~o[n]}

EncInit ==
    InitRun(FilesOf(EncRows, MaxFileLines), EncOptions,
            [readable : {TRUE}, written : WrittenAs, supported : {AllCodecs, Utf8Codecs}]
                \cup {EncUnreadable},
            {{}})

EncSpec == EncInit /\ [][Next]_vars

(***************************************************************************)
(* Runs that record issues of every kind                                   *)
(***************************************************************************)
RowAccentShortCrc == Plain(<< <<"U+00E9">>, <<"1","0">>, <<"A","B">>, <<"p">> >>)
IssueRows == {RowClean, RowAccent, RowAccentShortCrc}

IssueOptionNames == {"flag_nonutf8", "repair", "dry_run"}
IssueOptions == {o \in AllOptions : \A n \in OptionNames \ IssueOptionNames : ~o[n]}

IssueInit == InitRun(FilesOf(IssueRows, MaxLines), IssueOptions, {EncUtf8, EncLatin1}, {{}})

IssueSpec == IssueInit /\ [][Next]_vars

(***************************************************************************)
(* A second run on the same input file                                     *)
(***************************************************************************)
ValidationOnlyOptions == {o \in AllOptions : ~o.repair}

RerunInit ==
    InitRun(FilesOf(RunRows, 1), ValidationOnlyOptions, {EncUtf8, EncLatin1}, {{}, SubDirs})

\* validate_and_repair_csv is called again with the same arguments; what the
\* first run left on disk is still there
Rerun ==
    /\ pc = "Done" /\ run.number = 1
    /\ run' = [number |-> 2, first |-> ret]
    /\ pc' = "Decoding"
    /\ file_content' = None
    /\ encoding_used' = None
    /\ pos' = 0
    /\ loop' = EmptyLoop
    /\ ret' = None
    /\ probed' = <<>>
    /\ UNCHANGED <<opts, disk, fs, call, cli>>

RerunNext == Next \/ Rerun

RerunSpec == RerunInit /\ [][RerunNext]_vars

(***************************************************************************)
(* A dry run followed by the same run without dry-run                      *)
(***************************************************************************)
DryRunOptions == {o \in AllOptions : o.dry_run}

DryInit == InitRun(FilesOf(RunRows, 1), DryRunOptions, {EncUtf8, EncUnreadable}, {{}, SubDirs})

\* the second call: the same input file and options, dry_run=False; what the
\* dry run left on disk is still there
RerunWithoutDryRun ==
    /\ pc = "Done" /\ run.number = 1
    /\ run' = [number |-> 2, first |-> ret]
    /\ opts' = [opts EXCEPT !.dry_run = FALSE]
    /\ pc' = "Decoding"
    /\ file_content' = None
    /\ encoding_used' = None
    /\ pos' = 0
    /\ loop' = EmptyLoop
    /\ ret' = None
    /\ probed' = <<>>
    /\ UNCHANGED <<disk, fs, call, cli>>

DryNext == Next \/ RerunWithoutDryRun

DrySpec == DryInit /\ [][DryNext]_vars

(***************************************************************************)
(* The command line: single-file mode and bulk mode                        *)
(***************************************************************************)
MaxBulkFiles == 2

CliOptionNames == {"dry_run", "use_subfolders", "repair"}
CliOptions == {o \in AllOptions : \A n \in OptionNames \ CliOptionNames : ~o[n]}

\* a file without issues, a file with an issue, a file that cannot be opened
FileClean == [rows |-> <<RowClean>>, enc |-> EncUtf8]
FileIssues == [rows |-> <<RowNoHex>>, enc |-> EncUtf8]
FileUnreadable == [rows |-> <<RowClean>>, enc |-> EncUnreadable]
CliFiles == {FileClean, FileIssues, FileUnreadable}
NoFile == [rows |-> <<>>, enc |-> EncUtf8]

\* cli.queue: the input_file argument, or the CSV files of the --bulk folder
CliInit ==
    /\ opts \in CliOptions
    /\ disk = NoFile
    /\ fs \in [dirs : {{}, SubDirs \cup {"repaired"}}, output : {None}, log : {None},
               archive : {FALSE}, moved : {FALSE}]
    /\ pc = "Main"
    /\ file_content = None
    /\ encoding_used = None
    /\ pos = 0
    /\ loop = EmptyLoop
    /\ ret = None
    /\ call = NoCall
    /\ run = FirstRun
    /\ probed = <<>>
    /\ cli \in {[NoCli EXCEPT !.mode = "single", !.queue = <<f>>] : f \in CliFiles}
          \cup {[NoCli EXCEPT !.mode = "bulk", !.queue = q] :
                   q \in UNION {[1..k -> CliFiles] : k \in 0..MaxBulkFiles}}

\* the entry of validate_and_repair_csv on one input file; fs.output, fs.log,
\* fs.archive and fs.moved are those of the current input
StartCall(file, dirs) ==
    /\ disk' = file
    /\ fs' = [dirs |-> dirs, output |-> None, log |-> None, archive |-> FALSE,
              moved |-> FALSE]
    /\ pc' = "Decoding"
    /\ file_content' = None
    /\ encoding_used' = None
    /\ pos' = 0
    /\ loop' = EmptyLoop
    /\ ret' = None
    /\ probed' = <<>>

\* single file mode: validate_and_repair_csv(args.input_file, output_file=None,
\* log_file=None, ...)
MainSingle ==
    /\ pc = "Main" /\ cli.mode = "single"
    /\ StartCall(cli.queue[1], fs.dirs)
    /\ cli' = [cli EXCEPT !.queue = <<>>]
    /\ UNCHANGED <<opts, call, run>>

\* process_folder_bulk up to the first file: the folders, the list of CSV files
MainBulk ==
    /\ pc = "Main" /\ cli.mode = "bulk"
    /\ LET made == IF opts.dry_run THEN {}
                   ELSE IF opts.use_subfolders THEN SubDirs ELSE {"repaired"}
       IN IF cli.queue = <<>>
          THEN /\ fs' = [fs EXCEPT !.dirs = @ \cup made]
               /\ pc' = "Exited"
               /\ cli' = [cli EXCEPT !.exit = Some(1)]
               /\ UNCHANGED <<opts, disk, file_content, encoding_used, pos, loop, ret,
                              probed>>
          ELSE /\ StartCall(Head(cli.queue), fs.dirs \cup made)
               /\ opts' = [opts EXCEPT !.use_subfolders = FALSE]
               /\ cli' = [cli EXCEPT
                            !.use_subfolders = opts.use_subfolders,
                            !.csv_files = cli.queue,
                            !.results = [@ EXCEPT !.total_files = Len(cli.queue)],
                            !.queue = Tail(@),
                            !.output_file =
                                IF opts.dry_run THEN None
                                ELSE IF opts.use_subfolders THEN Some("CleanCSVs")
                                ELSE Some("repaired"),
                            !.log_file = IF opts.use_subfolders THEN Some("Logs")
                                         ELSE Some("repaired")]
    /\ UNCHANGED <<call, run>>

\* the fallback loop catches UnicodeDecodeError, UnicodeError and LookupError
\* only, and stands before the try block of the function: an OSError of open()
\* there leaves validate_and_repair_csv as an exception.  The binary open of
\* the BOM check has succeeded and the BOM encoding, if any, has not decoded
DecodeRaises ==
    /\ pc = "Decoding"
    /\ disk.enc.readable /\ ~fs.moved
    /\ LET detected == detect_bom(file_bytes(disk))
       IN /\ IF detected = None THEN TRUE
             ELSE try_decode(detected[1], file_bytes(disk), disk.enc.supported) = None
          /\ probed' = detected \o <<Head(supported_encodings(disk.enc.supported))>>
    /\ fs' = [fs EXCEPT !.dirs = IF opts.use_subfolders /\ ~opts.dry_run
                                 THEN fs.dirs \cup SubDirs ELSE fs.dirs]
    /\ pc' = "Done"
    /\ ret' = Some(RaisedError)
    /\ UNCHANGED <<opts, disk, file_content, encoding_used, pos, loop, call, cli, run>>

\* the status of the file in results['files']: ERROR from the except branch
file_status(result) ==
    IF "raised" \in DOMAIN result THEN "ERROR"
    ELSE IF result.issues = None THEN "FAILED"
    ELSE IF Len(result.issues[1]) > 0 THEN "ISSUES_FOUND"
    ELSE "CLEAN"

\* mutant: a file that raised gets its entry but is not counted
collect_mut_error_uncounted(results, status) ==
    [results EXCEPT
        !.failed = IF status = "FAILED" THEN @ + 1 ELSE @,
        !.with_issues = IF status = "ISSUES_FOUND" THEN @ + 1 ELSE @,
        !.successful = IF status = "CLEAN" THEN @ + 1 ELSE @,
        !.files = Append(@, status)]

\* the counters and the entry of one file
collect(results, status) ==
    [results EXCEPT
        !.failed = IF status \in {"FAILED", "ERROR"} THEN @ + 1 ELSE @,
        !.with_issues = IF status = "ISSUES_FOUND" THEN @ + 1 ELSE @,
        !.successful = IF status = "CLEAN" THEN @ + 1 ELSE @,
        !.files = Append(@, status)]

\* the body of the loop of process_folder_bulk after the call has returned
BulkCollect ==
    /\ pc = "Done" /\ cli.mode = "bulk"
    /\ LET results == collect(cli.results, file_status(ret[1]))
       IN IF cli.queue = <<>>
          THEN /\ pc' = "Summary"
               /\ cli' = [cli EXCEPT !.results = results]
               /\ UNCHANGED <<disk, fs, file_content, encoding_used, pos, loop, ret, probed>>
          ELSE /\ StartCall(Head(cli.queue), fs.dirs)
               /\ cli' = [cli EXCEPT !.results = results, !.queue = Tail(@)]
    /\ UNCHANGED <<opts, call, run>>

bulk_exit_code_mut_issues_first(results) ==
    IF results.with_issues > 0 THEN 2 ELSE IF results.failed > 0 THEN 1 ELSE 0

bulk_exit_code(results) ==
    IF results.failed > 0 THEN 1 ELSE IF results.with_issues > 0 THEN 2 ELSE 0

single_exit_code(issues) ==
    IF issues = None THEN 1 ELSE IF Len(issues[1]) > 0 THEN 2 ELSE 0

ExitBulk ==
    /\ pc = "Summary" /\ cli.mode = "bulk"
    /\ cli' = [cli EXCEPT !.exit = Some(bulk_exit_code(cli.results))]
    /\ pc' = "Exited"
    /\ UNCHANGED <<opts, disk, fs, file_content, encoding_used, pos, loop, ret, call, run,
                   probed>>

ExitSingle ==
    /\ pc = "Done" /\ cli.mode = "single"
    /\ cli' = [cli EXCEPT !.exit = Some(single_exit_code(ret[1].issues))]
    /\ pc' = "Exited"
    /\ UNCHANGED <<opts, disk, fs, file_content, encoding_used, pos, loop, ret, call, run,
                   probed>>

CliNext == MainSingle \/ MainBulk \/ Decode \/ DecodeRaises \/ ProcessLine
           \/ CheckDuplicates \/ WriteOutput \/ WriteLog \/ ArchiveAndReturn
           \/ BulkCollect \/ ExitBulk \/ ExitSingle

CliSpec == CliInit /\ [][CliNext]_vars

(***************************************************************************)
(* Properties                                                              *)
(***************************************************************************)
Rows == loop.repaired_rows
DataRowIdx == {k \in 1..Len(Rows) :
                  ~IsHeaderRow(k, loop.header_detected, loop.row_line_numbers)}
LoopOver == pc \notin {"Decoding", "Parsing"}
Completed == pc = "Done" /\ ret # None /\ ret[1].issues # None

\* the raw line that got line number ln (blank lines are not numbered)
RawLineOf(ln) == SelectSeq(file_content[1], LAMBDA l : Strip(l) # <<>>)[ln]
ParsedOf(k) ==
    PadTo(parse_csv_line_with_quotes(RawLineOf(loop.row_line_numbers[k]), None, None).fields, 4)

\* C1: every emitted row has exactly 5 fields, the header row included.
C1_EveryRowHasFiveFields == \A k \in 1..Len(Rows) : Len(Rows[k]) = 5

\* C2: in validation-only mode every field validator returns the value it was given.
C2_ValidationOnlyReturnsInput ==
    (call.done /\ ~call.repair) => call.result = call.value

ValidatorIssues(field, value, repair) ==
    CASE field = "FileName" -> validate_filename(value, 1, <<>>, repair).iss
      [] field = "Size" -> validate_size(value, 1, <<>>, repair).iss
      [] field = "CRC32" -> validate_crc32(value, 1, <<>>, repair).iss
      [] field = "Path" -> validate_path(value, 1, <<>>, repair).iss

\* C3: whenever the call with repair set records an issue, the call with repair
\* unset on the same value records one too.
C3_ValidationReportsWhatRepairFixes ==
    (call.done /\ call.repair /\ call.issues # <<>>)
        => ValidatorIssues(call.field, call.value, FALSE) # <<>>

\* C4: validate_crc32 with repair set returns 8 characters of 0-9A-F: the hex
\* characters of the input in upper case, left-padded with zeros when fewer than
\* 8, cut to the first 8 when more, "00000000" when there is none.
C4_CrcRepairLaw ==
    (call.done /\ call.field = "CRC32" /\ call.repair) =>
        LET hex == Upper(Keep(call.value, HexChars))
        IN /\ Len(call.result) = 8
           /\ \A i \in 1..Len(call.result) : call.result[i] \in HexUpperChars
           /\ Len(hex) < 8 => call.result = Zeros(8 - Len(hex)) \o hex
           /\ Len(hex) > 8 => call.result = SubSeq(hex, 1, 8)
           /\ Len(hex) = 0 => call.result = <<"0","0","0","0","0","0","0","0">>

C4_Witness ==
    /\ call.done /\ call.field = "CRC32" /\ call.repair
    /\ Len(Keep(call.value, HexChars)) > 8
    /\ call.value[1] = "a" /\ call.value[9] = "1"
    /\ call.result = <<"A","1","1","1","1","1","1","1">>

\* C5: with normalize-only set, for either value of repair, every emitted data
\* row carries the repaired checksum and the parsed FileName, Size and Path.
C5_NormalizeOnlyTouchesChecksumOnly ==
    opts.normalize_only =>
        \A k \in DataRowIdx :
            LET f == ParsedOf(k)
            IN /\ Rows[k][1] = f[1] /\ Rows[k][2] = f[2] /\ Rows[k][4] = f[4]
               /\ Rows[k][3] = validate_crc32(f[3], 0, <<>>, TRUE).val

WellFormed(r) ==
    /\ r.quoted /\ Len(r.fields) = 5
    /\ r.fields[1] # <<>> /\ ~HasAny(r.fields[1], InvalidFilenameChars)
    /\ IsDigitStr(r.fields[2])
    /\ Len(r.fields[3]) = 8 /\ \A i \in 1..8 : r.fields[3][i] \in HexChars
    /\ ~HasAny(r.fields[4], InvalidPathChars)

\* C6: a fully quoted row with an 8-hex checksum and no invalid character gives
\* no issue and, with repair enabled, is emitted with its five field values.
C6_WellFormedRoundTrip ==
    (LoopOver /\ Len(disk.rows) = 1 /\ WellFormed(disk.rows[1])) =>
        /\ loop.issues = <<>>
        /\ opts.repair => Rows = <<disk.rows[1].fields>>

DupIssuesFor(ln) ==
    SelectSeq(loop.issues, LAMBDA i : i.issue_type = "Duplicate CRC32 value found"
                                      /\ i.line_num = ln)
HasHex(k) == Keep(Rows[k][3], HexChars) # <<>>
SameKey(i, j) ==
    /\ norm_crc_of(Rows[i][3]) = norm_crc_of(Rows[j][3])
    /\ norm_size_of(Rows[i][2]) = norm_size_of(Rows[j][2])
LinesOf(g) == {loop.row_line_numbers[j] : j \in g}

\* the duplicate issues of row k are those of a group g: one issue naming the
\* lines of g when g has two rows or more, none otherwise
DupIssuesMatch(k, g) ==
    LET d == DupIssuesFor(loop.row_line_numbers[k])
    IN IF Cardinality(g) >= 2
       THEN /\ Len(d) = 1
            /\ Range(d[1].dup.lines_list) = LinesOf(g)
            /\ Len(d[1].dup.lines_list) = Cardinality(g)
       ELSE d = <<>>

\* C7 (as claimed): after the loop, every group of k >= 2 data rows with equal
\* normalized checksum and normalized size has one duplicate issue per member,
\* each naming the k lines; a row whose key no other row shares has none.
C7_DuplicateGroups_Claimed ==
    LoopOver =>
        \A k \in DataRowIdx : DupIssuesMatch(k, {j \in DataRowIdx : SameKey(k, j)})

\* C7 (amended): the same for the data rows whose emitted checksum holds at
\* least one hex character; a row whose checksum holds none is in no group and
\* gets no duplicate issue.
C7_DuplicateGroups ==
    LoopOver =>
        \A k \in DataRowIdx :
            DupIssuesMatch(k, IF HasHex(k)
                              THEN {j \in DataRowIdx : HasHex(j) /\ SameKey(k, j)}
                              ELSE {k})

C7_Witness ==
    /\ LoopOver
    /\ disk.rows = <<RowClean, RowSameKey, RowOtherSize>>
    /\ Len(DupIssuesFor(1)) = 1 /\ Len(DupIssuesFor(2)) = 1
    /\ DupIssuesFor(2)[1].dup.lines_list = <<1, 2>>
    /\ DupIssuesFor(3) = <<>>

C9_LogDecision ==
    (pc = "Done" /\ disk.enc.readable) =>
        ((fs.log # None) <=> (loop.issues # <<>> \/ opts.normalize_crc32))

\* C10: with dry-run set no output CSV is written, no archive zip is created and
\* the original is not moved, whatever the other options.
C10_DryRunWritesNothing ==
    opts.dry_run => (fs.output = None /\ ~fs.archive /\ ~fs.moved)

C10_Witness ==
    /\ Completed /\ opts.dry_run /\ opts.archive_original /\ opts.repair
    /\ ~opts.skip_rewrite_if_clean /\ Len(Rows) > 0
    /\ fs.output = None /\ ~fs.archive /\ ~fs.moved

(***************************************************************************)
(* Row order and row count                                                 *)
(***************************************************************************)
NonBlank(lines) == SelectSeq(lines, LAMBDA l : Strip(l) # <<>>)
LinesSeen == NonBlank(SubSeq(file_content[1], 1, pos))

\* C11: every non-blank line read so far has produced exactly one emitted row,
\* the rows stand in the order of their lines, and a detected header is row 1.
C11_OneRowPerLine ==
    file_content # None =>
        /\ Len(Rows) = Len(LinesSeen)
        /\ loop.row_line_numbers = [k \in 1..Len(LinesSeen) |-> k]
        /\ loop.header_detected => (Rows # <<>> /\ is_header(1, Rows[1]))

(***************************************************************************)
(* Exit status                                                             *)
(***************************************************************************)
Exited == pc = "Exited" /\ cli.exit # None
Statuses == Range(cli.results.files)
\* a file failed: its run returned the failed-file result or raised
SomeFailed == Statuses \cap {"FAILED", "ERROR"} # {}

\* the three outcomes of one processed file, read from the state of the run
ProcessedClean == ret # None /\ ret[1].issues # None /\ loop.issues = <<>>
ProcessedWithIssues == ret # None /\ ret[1].issues # None /\ loop.issues # <<>>
NotProcessed == ret \in {Some(FailedResult), Some(RaisedError)}

SingleStatusLaw ==
    /\ cli.exit[1] \in {0, 1, 2}
    /\ cli.exit[1] = 0 <=> ProcessedClean
    /\ cli.exit[1] = 2 <=> ProcessedWithIssues
    /\ cli.exit[1] = 1 <=> NotProcessed

\* C12 (as claimed): the exit status is 0 exactly when the file was processed
\* with no issue, 2 exactly when it was processed with issues, 1 exactly when it
\* could not be processed; in bulk mode 1 exactly when some file failed, else 2
\* exactly when some file has issues, else 0.
C12_ExitStatus_Claimed ==
    Exited =>
        IF cli.mode = "single" THEN SingleStatusLaw
        ELSE /\ cli.exit[1] \in {0, 1, 2}
             /\ cli.exit[1] = 1 <=> SomeFailed
             /\ cli.exit[1] = 2 <=> (~SomeFailed /\ "ISSUES_FOUND" \in Statuses)
             /\ cli.exit[1] = 0 <=> Statuses \subseteq {"CLEAN"}

\* C12 (amended): the same, and in bulk mode the status is also 1 when the
\* folder holds no CSV file.
C12_ExitStatus ==
    Exited =>
        IF cli.mode = "single" THEN SingleStatusLaw
        ELSE /\ cli.exit[1] \in {0, 1, 2}
             /\ cli.exit[1] = 1 <=> (SomeFailed \/ Statuses = {})
             /\ cli.exit[1] = 2 <=> (~SomeFailed /\ "ISSUES_FOUND" \in Statuses)
             /\ cli.exit[1] = 0 <=> (Statuses # {} /\ Statuses \subseteq {"CLEAN"})

C12_Witness ==
    /\ Exited /\ cli.mode = "bulk"
    /\ cli.results.files = <<"ISSUES_FOUND", "FAILED">>
    /\ cli.exit = Some(1)

(***************************************************************************)
(* Encoding                                                                *)
(***************************************************************************)
\* the encodings the run tries on the input file: the one of the BOM, then
\* the list
Candidates ==
    LET detected == detect_bom(file_bytes(disk))
    IN (IF detected = None THEN {} ELSE {detected[1]})
           \cup Range(supported_encodings(disk.enc.supported))
NoCandidateDecodes ==
    /\ disk.enc.readable
    /\ \A e \in Candidates : try_decode(e, file_bytes(disk), disk.enc.supported) = None

\* C13: when no candidate encoding decodes the input file, the run returns the
\* failed-file result, no line is parsed and no output file, log file or
\* archive is written.
C13_DecodeFailure ==
    NoCandidateDecodes =>
        /\ pc \in {"Decoding", "Done"}
        /\ pc = "Done" => ret = Some(FailedResult)
        /\ file_content = None /\ pos = 0 /\ loop = EmptyLoop
        /\ fs.output = None /\ fs.log = None /\ ~fs.archive /\ ~fs.moved

C13_Witness ==
    /\ NoCandidateDecodes /\ pc = "Done" /\ ret = Some(FailedResult)
    /\ disk.enc.written = "latin-1" /\ disk.rows = <<RowClean, RowTilde>>
    /\ ~opts.dry_run /\ opts.repair

IsEncodingIssue(i) == i.field_name = "File" /\ i.line_num = 0 /\ i.field_num = 0
EncodingIssuesFound == SelectSeq(loop.issues, IsEncodingIssue)

\* C14: once the file is decoded, the issue list holds a "Non-UTF-8 encoding
\* detected" issue exactly when flag-non-UTF-8 is set and the encoding used is
\* not a UTF-8 variant; there is at most one, it names the encoding used and it
\* is the first issue of the list.
C14_NonUtf8Issue ==
    encoding_used # None =>
        /\ (EncodingIssuesFound # <<>>)
              <=> (opts.flag_nonutf8 /\ encoding_used[1] \notin Utf8Names)
        /\ Len(EncodingIssuesFound) <= 1
        /\ EncodingIssuesFound # <<>> => loop.issues[1] = EncodingIssue(encoding_used[1])
        /\ ~opts.flag_nonutf8 => EncodingIssuesFound = <<>>

C14_Witness ==
    /\ pc = "Done" /\ opts.flag_nonutf8 /\ encoding_used = Some("latin-1")
    /\ disk.rows = <<RowC1, RowNoHex>>
    /\ Len(loop.issues) > 1
    /\ loop.issues[1] = EncodingIssue("latin-1")
    /\ Len(EncodingIssuesFound) = 1

\* the bytes of the output file and of the input text that are not ASCII
HighBytesOf(bytes) == SelectSeq(bytes, LAMBDA b : b > 127)
NonAsciiOf(text) == SelectSeq(text, LAMBDA c : ~IsAsciiChar(c))
output_bytes == utf_8_lines(fs.output[1])
InputText == Concat(file_lines(disk))
IsLatin1File ==
    /\ disk.enc = EncLatin1
    /\ NonAsciiOf(InputText) # <<>>

\* C15: a Latin-1 file without BOM that holds a non-ASCII character is
\* decoded, and the UTF-8 output file holds the same non-ASCII characters.
C15_Latin1Survives ==
    IsLatin1File =>
        /\ pc # "Decoding" => encoding_used # None
        /\ fs.output # None =>
              HighBytesOf(output_bytes) = utf_8_encode(NonAsciiOf(InputText))

(***************************************************************************)
(* Idempotence of validation-only runs                                     *)
(***************************************************************************)
\* C16: with repair unset, the second run on the same input returns the issue
\* list of the first, and the input file is never moved away.
C16_ValidationOnlyIdempotent ==
    ~opts.repair =>
        /\ ~fs.moved
        /\ (run.number = 2 /\ pc = "Done") => ret[1].issues = run.first[1].issues

(***************************************************************************)
(* Properties of the line parser                                           *)
(***************************************************************************)
OnCommentLine == call.done /\ call.field = "comment_line"
OnEscapedPathLine == call.done /\ call.field = "escaped_path_line"
OnLine == call.done /\ call.field = "line"

\* C17: an unquoted line whose free text after the Path field holds commas
\* gives one row whose Comment is that whole text, trimmed, the other four
\* fields being the ones of the line.
C17_CommentRecombined ==
    (OnCommentLine /\ CommaAt(call.value.comment) # {}
                   /\ ~HasAny(call.value.comment, {"\""})) =>
        /\ call.result.row[5] = Strip(call.value.comment)
        /\ call.result.row[4] = call.value.path

StrictParse(raw) ==
    csv_reader_next(mask_regions(RStripSet(LStripSet(raw, LineBreaks), LineBreaks)).temp_line)
StrictFails == StrictParse(call.value.line).err # ""

IsParseErrorIssue(i) ==
    /\ i.field_num = 0
    /\ i.field_name = "Row"
    /\ Prefix(i.issue_type, 17) = "CSV parsing error"
    /\ i.line_num = call.value.line_num[1]
    /\ i.original_value = RStripSet(LStripSet(call.value.line, LineBreaks), LineBreaks)

OneIssueAppended ==
    /\ call.value.issues # None
    /\ call.issues # None
    /\ Len(call.issues[1]) = Len(call.value.issues[1]) + 1
    /\ SubSeq(call.issues[1], 1, Len(call.value.issues[1])) = call.value.issues[1]
    /\ call.value.line_num # None
    /\ IsParseErrorIssue(call.issues[1][Len(call.issues[1])])

\* C19 as claimed: a field list is always returned; the failure of the strict
\* parse appends exactly one "Row" parsing error issue to the list the caller
\* gave, its success none.
C19_ParseNeverRaises_Claimed ==
    OnLine =>
        /\ Len(call.result) >= 1
        /\ (StrictFails /\ call.value.issues # None) => OneIssueAppended
        /\ ~StrictFails => call.issues = call.value.issues

\* C19: a field list is always returned; when the strict parse fails and the
\* caller gave both a line number and an issue list, exactly one "Row" parsing
\* error issue for that line is appended to the list; in every other case the
\* issues argument is left as it was.
C19_ParseNeverRaises ==
    OnLine =>
        /\ Len(call.result) >= 1
        /\ (StrictFails /\ call.value.issues # None /\ call.value.line_num # None)
              => OneIssueAppended
        /\ ~(StrictFails /\ call.value.issues # None /\ call.value.line_num # None)
              => call.issues = call.value.issues

C19_Witness ==
    /\ OnLine
    /\ StrictFails
    /\ call.value.line # <<>>
    /\ call.value.issues = Some(PriorIssues)
    /\ Len(call.issues[1]) = 2
    /\ Len(call.result) >= 2

\* C20: the written line of a row the loop emitted, parsed again, gives the
\* five values that were written.
C20_WrittenRowReparses ==
    OnCommentLine => call.result.reparsed = call.result.row

(***************************************************************************)
(* Encoding resolution order                                               *)
(***************************************************************************)
Decodes(e) == try_decode(e, file_bytes(disk), disk.enc.supported) # None
Detected == detect_bom(file_bytes(disk))
BomDecodes == Detected # None /\ Decodes(Detected[1])
FallbackList == supported_encodings(disk.enc.supported)
FirstDecoding == Min({k \in 1..Len(FallbackList) : Decodes(FallbackList[k])})

\* C21: the encoding used is the one the BOM names when decoding with it
\* succeeds, otherwise the first encoding of the supported fallback list that
\* decodes the file; the file is opened with the BOM encoding (if any), then
\* with the fallback encodings in order up to the first success and with none
\* after it.
C21_EncodingOrder ==
    encoding_used # None =>
        IF BomDecodes
        THEN encoding_used = Detected /\ probed = Detected
        ELSE /\ encoding_used = Some(FallbackList[FirstDecoding])
             /\ probed = Detected \o SubSeq(FallbackList, 1, FirstDecoding)
             /\ \A k \in 1..(Len(probed) - 1) : ~Decodes(probed[k])

\* a Latin-1 file with a UTF-8 BOM: the BOM encoding fails and three fallback
\* encodings are opened
C21_Witness ==
    /\ encoding_used = Some("cp1250")
    /\ probed = <<"utf-8-sig", "utf-8-sig", "utf-8", "cp1250">>
    /\ pc = "Done"

(***************************************************************************)
(* Header row                                                              *)
(***************************************************************************)
FieldsOfLine(ln) == parse_csv_line_with_quotes(RawLineOf(ln), None, None).fields
LooksLikeHeader(f) ==
    /\ Len(f) >= 3
    /\ \/ Lower(f[1]) \in {<<"f","i","l","e","n","a","m","e">>, <<"f","i","l","e">>,
                           <<"n","a","m","e">>}
       \/ Lower(f[3]) \in {<<"c","r","c","3","2">>, <<"c","r","c">>,
                           <<"c","h","e","c","k","s","u","m">>}
IsParseIssue(i) == i.field_name = "Row" /\ Prefix(i.issue_type, 17) = "CSV parsing error"
IsDuplicateIssue(i) == Prefix(i.issue_type, 27) = "Duplicate CRC32 value found"

\* C22: the header flag is set exactly when the first non-blank line has at
\* least 3 fields and a known label in its first or third field; that row is
\* emitted as parsed, no validator issue and no duplicate issue names line 1,
\* and every later row is validated as a data row even when it carries the
\* header labels.
C22_HeaderOnlyOnLineOne ==
    (file_content # None /\ LinesSeen # <<>>) =>
        /\ loop.header_detected <=> LooksLikeHeader(FieldsOfLine(1))
        /\ loop.header_detected =>
              /\ Rows[1] = FieldsOfLine(1)
              /\ loop.row_line_numbers[1] = 1
              /\ \A k \in 1..Len(loop.issues) :
                    loop.issues[k].line_num = 1 => IsParseIssue(loop.issues[k])
        /\ \A k \in 1..Len(Rows) :
              loop.row_line_numbers[k] > 1 =>
                  Rows[k] = validate_row(FieldsOfLine(loop.row_line_numbers[k]),
                                         loop.row_line_numbers[k],
                                         RawLineOf(loop.row_line_numbers[k]),
                                         <<>>, opts).row

\* a 4-field header on line 1 followed by two data rows that share one key
C22_Witness ==
    /\ LoopOver
    /\ loop.header_detected
    /\ Len(Rows) = MaxLines
    /\ Len(Rows[1]) = 4
    /\ \E k \in 1..Len(loop.issues) : IsDuplicateIssue(loop.issues[k])

(***************************************************************************)
(* Order of the issue list                                                 *)
(***************************************************************************)
IsPrefixOf(s, t) == Len(s) <= Len(t) /\ SubSeq(t, 1, Len(s)) = s
IsRowIssue(i) == ~IsEncodingIssue(i) /\ ~IsDuplicateIssue(i)

IssuesInArrivalOrder ==
    \A i, j \in 1..Len(loop.issues) :
        i < j =>
            /\ ~IsEncodingIssue(loop.issues[j])
            /\ IsDuplicateIssue(loop.issues[i]) => IsDuplicateIssue(loop.issues[j])
            /\ (IsRowIssue(loop.issues[i]) /\ IsRowIssue(loop.issues[j]))
                  => /\ loop.issues[i].line_num <= loop.issues[j].line_num
                     /\ (loop.issues[i].line_num = loop.issues[j].line_num
                            /\ IsParseIssue(loop.issues[j])) => IsParseIssue(loop.issues[i])

\* C23: every step leaves the earlier issue list as a prefix of the later one;
\* the encoding issue is first, the row issues follow in non-decreasing line
\* number with a parsing issue before the other issues of its line, the
\* duplicate issues come after every row issue, and the log lists the issues
\* in the order of the list.
C23_IssuesAppendOnly ==
    /\ [][IsPrefixOf(loop.issues, loop'.issues)]_vars
    /\ [](IssuesInArrivalOrder /\ (fs.log # None => fs.log[1].issues = loop.issues))

\* an encoding issue, a field issue on each of two lines, two duplicate issues,
\* all in the log
C23_Witness ==
    /\ fs.log # None
    /\ Len(fs.log[1].issues) >= 5
    /\ IsEncodingIssue(loop.issues[1])
    /\ IsRowIssue(loop.issues[2]) /\ loop.issues[2].line_num = 1
    /\ \E k \in 1..Len(loop.issues) : IsRowIssue(loop.issues[k]) /\ loop.issues[k].line_num = 2
    /\ IsDuplicateIssue(loop.issues[Len(loop.issues)])

(***************************************************************************)
(* Short rows                                                              *)
(***************************************************************************)
IsInsufficientIssue(i) ==
    /\ i.field_num = 0 /\ i.field_name = "Row"
    /\ Prefix(i.issue_type, 19) = "Insufficient fields"
InsufficientIssuesOf(ln) ==
    SelectSeq(loop.issues, LAMBDA i : IsInsufficientIssue(i) /\ i.line_num = ln)

\* C24: for every non-blank line read so far that is not the header, exactly
\* one "Insufficient fields" issue names the line when the parser returned
\* fewer than 4 fields for it and none otherwise; the issue holds the whole
\* row and the issue list is then not empty.
C24_InsufficientFields ==
    file_content # None =>
        \A ln \in 1..Len(LinesSeen) :
            LET f == FieldsOfLine(ln)
                header == ln = 1 /\ LooksLikeHeader(f)
            IN IF ~header /\ Len(f) < 4
               THEN /\ Len(InsufficientIssuesOf(ln)) = 1
                    /\ InsufficientIssuesOf(ln)[1].original_value = Strip(RawLineOf(ln))
               ELSE InsufficientIssuesOf(ln) = <<>>

(***************************************************************************)
(* The bulk loop                                                           *)
(***************************************************************************)
InBulkLoop == cli.mode = "bulk" /\ pc \notin {"Main", "Exited"} /\ cli.csv_files # <<>>
BulkLoopOver == cli.mode = "bulk" /\ pc \in {"Summary", "Exited"} /\ cli.csv_files # <<>>
CountOf(status) == Len(SelectSeq(cli.results.files, LAMBDA st : st = status))
\* the number of files whose run is under way
InFlight == IF pc = "Summary" THEN 0 ELSE 1

\* the outcome of the run of a selected file that its entry must show
EntryFits(file, status) ==
    /\ status \in {"CLEAN", "ISSUES_FOUND", "FAILED", "ERROR"}
    /\ ~file.enc.readable => status = "FAILED"
    /\ status = "CLEAN" => file.rows = <<RowClean>>

\* C25: the bulk loop takes the selected files one after the other, each
\* once: the entries written so far are those of the first files of the list,
\* one file is under way and the rest is still to come; a failed or raising
\* file is followed by the files after it; at the end every file has one entry
\* with one of the four statuses and the three counters add up to total_files.
C25_BulkLoop ==
    /\ InBulkLoop =>
          /\ Len(cli.results.files) + InFlight + Len(cli.queue) = Len(cli.csv_files)
          /\ cli.queue = SubSeq(cli.csv_files, Len(cli.csv_files) - Len(cli.queue) + 1,
                                Len(cli.csv_files))
          /\ InFlight = 1 => disk = cli.csv_files[Len(cli.results.files) + 1]
    /\ (InBulkLoop \/ BulkLoopOver) =>
          /\ \A k \in 1..Len(cli.results.files) :
                EntryFits(cli.csv_files[k], cli.results.files[k])
          /\ cli.results.successful = CountOf("CLEAN")
          /\ cli.results.with_issues = CountOf("ISSUES_FOUND")
          /\ cli.results.failed = CountOf("FAILED") + CountOf("ERROR")
    /\ BulkLoopOver =>
          /\ Len(cli.results.files) = Len(cli.csv_files)
          /\ cli.results.total_files = Len(cli.csv_files)
          /\ cli.results.successful + cli.results.with_issues + cli.results.failed
                = cli.results.total_files

\* a file that raised, then a clean one
C25_Witness ==
    /\ BulkLoopOver
    /\ cli.results.files = <<"ERROR", "CLEAN">>
    /\ cli.results.failed = 1 /\ cli.results.successful = 1

(***************************************************************************)
(* One validator call per field                                            *)
(***************************************************************************)
IsFieldIssue(i) ==
    i.field_name \in {"FileName", "Size", "CRC32", "Path"} /\ ~IsDuplicateIssue(i)
FieldIssuesOf(ln) == SelectSeq(loop.issues, LAMBDA i : IsFieldIssue(i) /\ i.line_num = ln)

\* the issues of one call of each validator, with the repair setting that is
\* in effect for the field
OneCallEach(f, ln, o) ==
    validate_filename(f[1], ln, <<>>, o.repair /\ ~o.normalize_only).iss
        \o validate_size(f[2], ln, <<>>, o.repair /\ ~o.normalize_only).iss
        \o validate_crc32(f[3], ln, <<>>, o.normalize_crc32 \/ o.repair).iss
        \o validate_path(f[4], ln, <<>>, o.repair /\ ~o.normalize_only).iss

\* C26: the field issues recorded for a data row are those of one call of each
\* field validator on the parsed (padded) fields of its line.
C26_OneValidationPerField ==
    \A k \in DataRowIdx :
        FieldIssuesOf(loop.row_line_numbers[k])
            = OneCallEach(ParsedOf(k), loop.row_line_numbers[k], opts)

(***************************************************************************)
(* Changes and issues                                                      *)
(***************************************************************************)
OnRowLine == call.done /\ call.field = "row_line" /\ Len(call.result) = 1
\* what the parser returned for the line, fields 4+ joined into the comment
ParsedRow ==
    LET f == PadTo(parse_csv_line_with_quotes(call.value.line, None, None).fields, 4)
    IN <<f[1], f[2], f[3], f[4], Join(SubSeq(f, 5, Len(f)), <<",">>)>>
ChangedFields == {k \in 1..5 : call.result[1][k] # ParsedRow[k]}

\* C27: in repair mode a row that differs from what the parser returned in any
\* of its five fields has at least one issue.
C27_NoSilentChange ==
    (OnRowLine /\ call.repair) => (ChangedFields # {} => call.issues # <<>>)

(***************************************************************************)
(* Dry run against the run that writes                                     *)
(***************************************************************************)
\* C28: when the run without dry-run has returned, the dry run on the same
\* input and options before it returned the same issue list and row count,
\* and was not a failed-file result unless the second run is one too.
C28_DryRunSameResult ==
    (run.number = 2 /\ pc = "Done") =>
        /\ run.first[1].issues = ret[1].issues
        /\ run.first[1].rows = ret[1].rows

(***************************************************************************)
(* Archive and output                                                      *)
(***************************************************************************)
\* C29: the original is archived and moved away only in a run that wrote an
\* output file.
C29_ArchiveOnlyWithOutput ==
    (fs.archive \/ fs.moved) => fs.output # None

(***************************************************************************)
(* Regions and the first three fields                                      *)
(***************************************************************************)
Tokens == SplitComma(call.value.line, 1, <<>>)

\* C30: for a line without quote characters (and without a line break) that
\* has three or more comma-separated tokens, the first three fields returned
\* are the first three tokens.
C30_RegionInsidePath ==
    (OnLine /\ ~HasAny(call.value.line, {"\"", "\r", "\n"}) /\ Len(Tokens) >= 3) =>
        /\ Len(call.result) >= 3
        /\ \A k \in 1..3 : call.result[k] = Tokens[k]

====
